---- MODULE Spec2Model ----
(***************************************************************************)
(* Handler layer of the wedding-invitation service: the relational store  *)
(* (users, templates, invitations, rsvps, guestbooks, payments, visitors) *)
(* and the handlers that act on it.  Every database statement a handler   *)
(* awaits is one atomic step of the calling request; requests of          *)
(* different callers interleave between statements.                       *)
(***************************************************************************)
EXTENDS Integers, FiniteSets, Sequences, TLC

(* ---------------------------------------------------------------------- *)
(* Bounds of the model                                                     *)
(* ---------------------------------------------------------------------- *)
\* number of requests that can be in flight at the same time
NProcs == 2
\* ids the invitations / payments / rsvps / visitors / users sequences hand out
MaxInv == 2
MaxPay == 1
MaxRsvp == 2
MaxVis == 2
MaxGb == 1
MaxEntries == 2
MaxUsers == 2
MaxLogs == 2
MaxTpl == 1
\* the clock stops here
MaxTime == 2
\* getInvitationBySlug is not called for an invitation viewed this often
MaxViews == 3

Procs == 1..NProcs

(* ---------------------------------------------------------------------- *)
(* Values                                                                  *)
(* ---------------------------------------------------------------------- *)
\* a nullable column: Null, or Some(v)
Null == <<>>
Some(v) == <<v>>

\* an optional argument: left out by the caller (undefined), or Given(v)
Absent == <<>>
Given(v) == <<v>>

Slugs == {"anna-ben", "Anna-Ben"}
InvStatuses == {"draft", "published", "unpublished", "archived"}
Usernames == {"alice", "bob"}
Emails == {"a@x.io", "b@x.io"}
Roles == {"super_admin", "user_mitra", "user_customer"}
Passwords == {"hunter22", "letmein1"}
\* salts crypto.randomBytes can draw
Salts == {"5a17", "c0de"}
UserStatuses == {"pending", "active", "suspended", "rejected"}
GuestNames == {"Gina", "Hugo"}
\* guest_phone is z.string().nullable(): the empty string is a legal phone
GuestPhones == {Null, Some(""), Some("555")}
GuestEmails == {Null, Some("g@x.io")}
\* wedding_data payloads: one JSON document, one malformed
WeddingData == {"{}", "{bad"}

VARIABLES
  users,        \* usersTable rows
  loginLogs,    \* loginLogsTable rows
  templates,    \* templatesTable rows
  invitations,  \* invitationsTable rows
  rsvps,        \* rsvpsTable rows
  guestbooks,   \* guestbooksTable rows
  payments,     \* paymentsTable rows
  visitors,     \* visitorsTable rows
  nextId,       \* the serial sequence of every table
  now,          \* the clock new Date() / now() reads
  pc,           \* pc[p]: the statement request p executes next
  loc,          \* loc[p]: the arguments and local variables of request p
  res           \* res[p]: what the last call of p returned or threw

tables == <<users, loginLogs, templates, invitations, rsvps, guestbooks, payments,
            visitors>>
vars == <<users, loginLogs, templates, invitations, rsvps, guestbooks, payments,
          visitors, nextId, now, pc, loc, res>>

(* ---------------------------------------------------------------------- *)
(* Helpers                                                                 *)
(* ---------------------------------------------------------------------- *)
Tables == {"users", "loginLogs", "templates", "invitations", "rsvps", "guestbooks",
           "payments", "visitors"}

\* the rows a `where id = x` finds
ById(rows, x) == {r \in rows : r.id = x}

\* JSON.parse(text) returns instead of throwing
IsJson(text) == text = "{}"

NoCall == [op |-> "none"]
Ok(op, val) == [op |-> op, ok |-> TRUE, err |-> "", val |-> val]
Err(op, msg) == [op |-> op, ok |-> FALSE, err |-> msg, val |-> Null]

\* request p returns r: its locals go away
Return(p, r) ==
  /\ pc' = [pc EXCEPT ![p] = "idle"]
  /\ loc' = [loc EXCEPT ![p] = NoCall]
  /\ res' = [res EXCEPT ![p] = r]

\* request p goes on to statement s with locals l
Goto(p, s, l) ==
  /\ pc' = [pc EXCEPT ![p] = s]
  /\ loc' = [loc EXCEPT ![p] = l]
  /\ UNCHANGED res

\* request p enters a handler
Enter(p, s, l) ==
  /\ pc[p] = "idle"
  /\ pc' = [pc EXCEPT ![p] = s]
  /\ loc' = [loc EXCEPT ![p] = l]
  /\ res' = [res EXCEPT ![p] = NoCall]

\* a store created by createDB: every table empty, every sequence at 1
InitEmpty ==
  /\ users = {}
  /\ loginLogs = {}
  /\ templates = {}
  /\ invitations = {}
  /\ rsvps = {}
  /\ guestbooks = {}
  /\ payments = {}
  /\ visitors = {}
  /\ nextId = [t \in Tables |-> 1]
  /\ now = 1
  /\ pc = [p \in Procs |-> "idle"]
  /\ loc = [p \in Procs |-> NoCall]
  /\ res = [p \in Procs |-> NoCall]

\* the clock advances between statements
Tick ==
  /\ now < MaxTime
  /\ now' = now + 1
  /\ UNCHANGED <<tables, nextId, pc, loc, res>>

\* requests that are inside one of the handlers ops
InFlight(ops) == Cardinality({p \in Procs : loc[p].op \in ops})

\* the sequence of table t can still hand out an id <= max to one more call of op
Room(t, op, max) == nextId[t] + InFlight({op}) <= max

\* ids a caller may name: every id table t has handed out, and the next one,
\* which no row has
IdsOf(t) == 1..nextId[t]

(* ---------------------------------------------------------------------- *)
(* Users: createUser, updateUser                                           *)
(* ---------------------------------------------------------------------- *)
\* encrypt(text, true): the stored text "iv:ciphertext", the iv derived from
\* the text, so equal inputs give equal outputs; it is never the input itself
EncryptDet(text) == [enc |-> TRUE, text |-> text]
\* a column written as the caller supplied it
Plain(text) == [enc |-> FALSE, text |-> text]

\* users.username and users.email are unique columns
UsersUniqueOk(rows, row) ==
  \A u \in rows : u.id # row.id => u.username # row.username /\ u.email # row.email

\* Password texts.  PlainString(p) is the text p, which has no ':' in it;
\* HashString(p, salt) is the text salt + ':' + pbkdf2(p, salt), and pbkdf2 is
\* taken to be free of collisions.
PlainString(password) == [hashed |-> FALSE, salt |-> "", of |-> password]
HashString(password, salt) == [hashed |-> TRUE, salt |-> salt, of |-> password]

\* hashPassword: the salt is drawn at random
HashPasswords(password) == {HashString(password, salt) : salt \in Salts}

\* mutant: the status is left to the column default
InitialStatusDefault(role) == "pending"

\* const status = input.role === 'user_mitra' ? 'pending' : 'active'
InitialStatus(role) == IF role = "user_mitra" THEN "pending" ELSE "active"

CreateUserInputs ==
  [username : Usernames, email : Emails, role : Roles, password : Passwords]

Call_createUser(p, in) ==
  /\ \E password_hash \in HashPasswords(in.password) :
       Enter(p, "createUser_insert",
             [op |-> "createUser", in |-> in, password_hash |-> password_hash])
  /\ UNCHANGED <<tables, nextId, now>>

createUser_insert(p) ==
  /\ pc[p] = "createUser_insert"
  /\ LET in == loc[p].in
         row == [id |-> nextId.users,
                 username |-> in.username,
                 email |-> EncryptDet(in.email),
                 password_hash |-> loc[p].password_hash,
                 role |-> in.role,
                 status |-> InitialStatus(in.role),
                 last_login |-> Null,
                 approved_by |-> Null,
                 approved_at |-> Null]
     IN IF UsersUniqueOk(users, row)
        THEN /\ users' = users \cup {row}
             /\ nextId' = [nextId EXCEPT !.users = @ + 1]
             /\ Return(p, Ok("createUser", [row EXCEPT !.email = Plain(in.email)]))
        ELSE /\ UNCHANGED <<users, nextId>>
             /\ Return(p, Err("createUser", "duplicate key value violates unique constraint"))
  /\ UNCHANGED <<loginLogs, templates, invitations, rsvps, guestbooks, payments, visitors, now>>

UpdateUserInputs ==
  [id : IdsOf("users"),
   email : {Absent} \cup {Given(e) : e \in Emails},
   status : {Absent, Given("active"), Given("suspended")},
   approved_by : {Absent, Given(Null), Given(Some(1))}]

Call_updateUser(p, in) ==
  /\ Enter(p, "updateUser_update", [op |-> "updateUser", in |-> in])
  /\ UNCHANGED <<tables, nextId, now>>

\* mutant: clearing approved_by leaves the old approved_at
UpdateUserRowKeepingStamp(u, in) ==
  [u EXCEPT
     !.email = IF in.email = Absent THEN @ ELSE Plain(in.email[1]),
     !.status = IF in.status = Absent THEN @ ELSE in.status[1],
     !.approved_by = IF in.approved_by = Absent THEN @ ELSE in.approved_by[1],
     !.approved_at = IF in.approved_by = Absent THEN @
                     ELSE IF in.approved_by[1] # Null THEN Some(now) ELSE @]

\* the row updateUser's set clause makes of row u
UpdateUserRow(u, in) ==
  [u EXCEPT
     !.email = IF in.email = Absent THEN @ ELSE Plain(in.email[1]),
     !.status = IF in.status = Absent THEN @ ELSE in.status[1],
     !.approved_by = IF in.approved_by = Absent THEN @ ELSE in.approved_by[1],
     !.approved_at = IF in.approved_by = Absent THEN @
                     ELSE IF in.approved_by[1] # Null THEN Some(now) ELSE Null]

updateUser_update(p) ==
  /\ pc[p] = "updateUser_update"
  /\ LET in == loc[p].in
         hit == ById(users, in.id)
     IN IF hit = {}
        THEN /\ UNCHANGED users
             /\ Return(p, Err("updateUser", "User with id not found"))
        ELSE LET u == CHOOSE r \in hit : TRUE
                 row == UpdateUserRow(u, in)
             IN IF UsersUniqueOk(users, row)
                THEN /\ users' = (users \ {u}) \cup {row}
                     /\ Return(p, Ok("updateUser", row))
                ELSE /\ UNCHANGED users
                     /\ Return(p, Err("updateUser", "duplicate key value violates unique constraint"))
  /\ UNCHANGED <<loginLogs, templates, invitations, rsvps, guestbooks, payments, visitors, nextId, now>>

ApproveUserInputs == [userId : IdsOf("users"), approverId : IdsOf("users")]

Call_approveUser(p, in) ==
  /\ Enter(p, "approveUser_update", [op |-> "approveUser", in |-> in])
  /\ UNCHANGED <<tables, nextId, now>>

approveUser_update(p) ==
  /\ pc[p] = "approveUser_update"
  /\ LET in == loc[p].in
         result == {[u EXCEPT !.status = "active",
                              !.approved_by = Some(in.approverId),
                              !.approved_at = Some(now)] : u \in ById(users, in.userId)}
     IN /\ users' = {u \in users : u.id # in.userId} \cup result
        /\ IF result = {}
           THEN Return(p, Err("approveUser", "User with id not found"))
           ELSE Return(p, Ok("approveUser", CHOOSE u \in result : TRUE))
  /\ UNCHANGED <<loginLogs, templates, invitations, rsvps, guestbooks, payments, visitors, nextId, now>>

(* ---------------------------------------------------------------------- *)
(* Users: authenticateUser                                                 *)
(* ---------------------------------------------------------------------- *)
\* password: z.string(): any text, the text of a stored hash included
LoginInputs ==
  [username : Usernames,
   password : {PlainString(pw) : pw \in Passwords} \cup {u.password_hash : u \in users}]

Call_authenticateUser(p, in) ==
  /\ Enter(p, "authenticateUser_select", [op |-> "authenticateUser", in |-> in])
  /\ UNCHANGED <<tables, nextId, now>>

\* mutant: only active accounts log in
PasswordValidForActive(user, password) ==
  user.password_hash = password /\ user.status = "active"

\* const isPasswordValid = user.password_hash === input.password
PasswordValid(user, password) == user.password_hash = password

authenticateUser_select(p) ==
  /\ pc[p] = "authenticateUser_select"
  /\ LET found == {u \in users : u.username = loc[p].in.username}
     IN IF found = {}
        THEN Goto(p, "authenticateUser_logFailure",
                  [op |-> "authenticateUser", in |-> loc[p].in, user_id |-> 0])
        ELSE LET user == CHOOSE u \in found : TRUE
             IN IF ~PasswordValid(user, loc[p].in.password)
                THEN Goto(p, "authenticateUser_logFailure",
                          [op |-> "authenticateUser", in |-> loc[p].in, user_id |-> user.id])
                ELSE Goto(p, "authenticateUser_updateLastLogin",
                          [op |-> "authenticateUser", in |-> loc[p].in, user |-> user])
  /\ UNCHANGED <<tables, nextId, now>>

authenticateUser_logFailure(p) ==
  /\ pc[p] = "authenticateUser_logFailure"
  /\ loginLogs' = loginLogs \cup
       {[id |-> nextId.loginLogs, user_id |-> loc[p].user_id, success |-> FALSE]}
  /\ nextId' = [nextId EXCEPT !.loginLogs = @ + 1]
  /\ Return(p, Ok("authenticateUser", Null))
  /\ UNCHANGED <<users, templates, invitations, rsvps, guestbooks, payments, visitors, now>>

\* const now = new Date(), then the update of last_login
authenticateUser_updateLastLogin(p) ==
  /\ pc[p] = "authenticateUser_updateLastLogin"
  /\ users' = {IF u.id = loc[p].user.id THEN [u EXCEPT !.last_login = Some(now)] ELSE u :
                 u \in users}
  /\ Goto(p, "authenticateUser_logSuccess",
          [op |-> "authenticateUser", in |-> loc[p].in, user |-> loc[p].user, now |-> now])
  /\ UNCHANGED <<loginLogs, templates, invitations, rsvps, guestbooks, payments, visitors, nextId, now>>

authenticateUser_logSuccess(p) ==
  /\ pc[p] = "authenticateUser_logSuccess"
  /\ loginLogs' = loginLogs \cup
       {[id |-> nextId.loginLogs, user_id |-> loc[p].user.id, success |-> TRUE]}
  /\ nextId' = [nextId EXCEPT !.loginLogs = @ + 1]
  /\ Return(p, Ok("authenticateUser",
                  Some([loc[p].user EXCEPT !.last_login = Some(loc[p].now)])))
  /\ UNCHANGED <<users, templates, invitations, rsvps, guestbooks, payments, visitors, now>>

(* ---------------------------------------------------------------------- *)
(* Templates: createTemplate                                               *)
(* ---------------------------------------------------------------------- *)
CreateTemplateInputs == [template_data : WeddingData]

Call_createTemplate(p, in) ==
  /\ Enter(p, "createTemplate_insert", [op |-> "createTemplate", in |-> in])
  /\ UNCHANGED <<tables, nextId, now>>

createTemplate_insert(p) ==
  /\ pc[p] = "createTemplate_insert"
  /\ LET in == loc[p].in
         row == [id |-> nextId.templates, is_active |-> TRUE]
     IN IF ~IsJson(in.template_data)
        THEN /\ UNCHANGED <<templates, nextId>>
             /\ Return(p, Err("createTemplate", "Invalid template_data: must be valid JSON string"))
        ELSE /\ templates' = templates \cup {row}
             /\ nextId' = [nextId EXCEPT !.templates = @ + 1]
             /\ Return(p, Ok("createTemplate", row))
  /\ UNCHANGED <<loginLogs, users, invitations, rsvps, guestbooks, payments, visitors, now>>

(* ---------------------------------------------------------------------- *)
(* Invitations: createInvitation                                           *)
(* ---------------------------------------------------------------------- *)
\* mutant: the slug column is not unique
SlugNotConstrained(rows, row) == TRUE

\* invitations.slug is a unique column; text equality is case-sensitive
SlugUniqueOk(rows, row) ==
  \A i \in rows : i.id # row.id => i.slug # row.slug

CreateInvitationInputs ==
  [user_id : IdsOf("users"), template_id : IdsOf("templates"), slug : Slugs,
   wedding_data : WeddingData, expires_at : {Null, Some(1)}]

Call_createInvitation(p, in) ==
  /\ Enter(p, "createInvitation_selectSlug", [op |-> "createInvitation", in |-> in])
  /\ UNCHANGED <<tables, nextId, now>>

createInvitation_selectSlug(p) ==
  /\ pc[p] = "createInvitation_selectSlug"
  /\ LET existingSlug == {i \in invitations : i.slug = loc[p].in.slug}
     IN IF existingSlug # {}
        THEN Return(p, Err("createInvitation", "Slug is already taken"))
        ELSE Goto(p, "createInvitation_selectUser", loc[p])
  /\ UNCHANGED <<tables, nextId, now>>

createInvitation_selectUser(p) ==
  /\ pc[p] = "createInvitation_selectUser"
  /\ LET user == ById(users, loc[p].in.user_id)
     IN IF user = {}
        THEN Return(p, Err("createInvitation", "User not found"))
        ELSE IF (CHOOSE u \in user : TRUE).status # "active"
        THEN Return(p, Err("createInvitation", "User must be active to create invitations"))
        ELSE Goto(p, "createInvitation_selectTemplate", loc[p])
  /\ UNCHANGED <<tables, nextId, now>>

\* mutant: wedding_data is parsed before the template is looked at
createInvitation_selectTemplateJsonFirst(p) ==
  /\ pc[p] = "createInvitation_selectTemplate"
  /\ LET template == ById(templates, loc[p].in.template_id)
     IN IF ~IsJson(loc[p].in.wedding_data)
        THEN Return(p, Err("createInvitation", "Invalid JSON format in wedding_data"))
        ELSE IF template = {}
        THEN Return(p, Err("createInvitation", "Template not found"))
        ELSE IF ~(CHOOSE t \in template : TRUE).is_active
        THEN Return(p, Err("createInvitation", "Template is not active"))
        ELSE Goto(p, "createInvitation_insert", loc[p])
  /\ UNCHANGED <<tables, nextId, now>>

createInvitation_selectTemplate(p) ==
  /\ pc[p] = "createInvitation_selectTemplate"
  /\ LET template == ById(templates, loc[p].in.template_id)
     IN IF template = {}
        THEN Return(p, Err("createInvitation", "Template not found"))
        ELSE IF ~(CHOOSE t \in template : TRUE).is_active
        THEN Return(p, Err("createInvitation", "Template is not active"))
        ELSE IF ~IsJson(loc[p].in.wedding_data)
        THEN Return(p, Err("createInvitation", "Invalid JSON format in wedding_data"))
        ELSE Goto(p, "createInvitation_insert", loc[p])
  /\ UNCHANGED <<tables, nextId, now>>

createInvitation_insert(p) ==
  /\ pc[p] = "createInvitation_insert"
  /\ LET in == loc[p].in
         row == [id |-> nextId.invitations,
                 user_id |-> in.user_id,
                 template_id |-> in.template_id,
                 slug |-> in.slug,
                 status |-> "draft",
                 view_count |-> 0,
                 rsvp_count |-> 0,
                 published_at |-> Null,
                 expires_at |-> in.expires_at]
     IN IF SlugUniqueOk(invitations, row)
        THEN /\ invitations' = invitations \cup {row}
             /\ nextId' = [nextId EXCEPT !.invitations = @ + 1]
             /\ Return(p, Ok("createInvitation", row))
        ELSE /\ UNCHANGED <<invitations, nextId>>
             /\ Return(p, Err("createInvitation", "duplicate key value violates unique constraint"))
  /\ UNCHANGED <<loginLogs, users, templates, rsvps, guestbooks, payments, visitors, now>>

(* ---------------------------------------------------------------------- *)
(* Payments: createPayment, processPayment                                 *)
(* ---------------------------------------------------------------------- *)
CreatePaymentInputs == [user_id : IdsOf("users"), invitation_id : IdsOf("invitations")]

Call_createPayment(p, in) ==
  /\ Enter(p, "createPayment_selectUser", [op |-> "createPayment", in |-> in])
  /\ UNCHANGED <<tables, nextId, now>>

createPayment_selectUser(p) ==
  /\ pc[p] = "createPayment_selectUser"
  /\ IF ById(users, loc[p].in.user_id) = {}
     THEN Return(p, Err("createPayment", "User not found"))
     ELSE Goto(p, "createPayment_selectInvitation", loc[p])
  /\ UNCHANGED <<tables, nextId, now>>

createPayment_selectInvitation(p) ==
  /\ pc[p] = "createPayment_selectInvitation"
  /\ IF ById(invitations, loc[p].in.invitation_id) = {}
     THEN Return(p, Err("createPayment", "Invitation not found"))
     ELSE Goto(p, "createPayment_selectOwned", loc[p])
  /\ UNCHANGED <<tables, nextId, now>>

\* mutant: the ownership of the invitation is not looked at
createPayment_selectAnyOwner(p) ==
  /\ pc[p] = "createPayment_selectOwned"
  /\ Goto(p, "createPayment_insert", loc[p])
  /\ UNCHANGED <<tables, nextId, now>>

createPayment_selectOwned(p) ==
  /\ pc[p] = "createPayment_selectOwned"
  /\ LET invitation == {i \in invitations : /\ i.id = loc[p].in.invitation_id
                                            /\ i.user_id = loc[p].in.user_id}
     IN IF invitation = {}
        THEN Return(p, Err("createPayment", "Invitation does not belong to the specified user"))
        ELSE Goto(p, "createPayment_insert", loc[p])
  /\ UNCHANGED <<tables, nextId, now>>

createPayment_insert(p) ==
  /\ pc[p] = "createPayment_insert"
  /\ LET in == loc[p].in
         row == [id |-> nextId.payments,
                 user_id |-> in.user_id,
                 invitation_id |-> in.invitation_id,
                 status |-> "pending",
                 payment_data |-> Null]
     IN /\ payments' = payments \cup {row}
        /\ nextId' = [nextId EXCEPT !.payments = @ + 1]
        /\ Return(p, Ok("createPayment", row))
  /\ UNCHANGED <<loginLogs, users, templates, invitations, rsvps, guestbooks, visitors, now>>

\* what the gateway stub reports
GatewayResponses == [success : BOOLEAN]

ProcessPaymentInputs == [paymentId : IdsOf("payments"), gatewayResponse : GatewayResponses]

Call_processPayment(p, in) ==
  /\ Enter(p, "processPayment_select", [op |-> "processPayment", in |-> in])
  /\ UNCHANGED <<tables, nextId, now>>

\* mutant: only a pending payment is processed
processPayment_selectPending(p) ==
  /\ pc[p] = "processPayment_select"
  /\ LET existingPayments == {r \in ById(payments, loc[p].in.paymentId) :
                                r.status = "pending"}
     IN IF existingPayments = {}
        THEN Return(p, Err("processPayment", "Payment not found"))
        ELSE Goto(p, "processPayment_updatePayment",
                  [op |-> "processPayment", in |-> loc[p].in,
                   existingPayment |-> CHOOSE r \in existingPayments : TRUE])
  /\ UNCHANGED <<tables, nextId, now>>

processPayment_select(p) ==
  /\ pc[p] = "processPayment_select"
  /\ LET existingPayments == ById(payments, loc[p].in.paymentId)
     IN IF existingPayments = {}
        THEN Return(p, Err("processPayment", "Payment not found"))
        ELSE Goto(p, "processPayment_updatePayment",
                  [op |-> "processPayment", in |-> loc[p].in,
                   existingPayment |-> CHOOSE r \in existingPayments : TRUE])
  /\ UNCHANGED <<tables, nextId, now>>

\* step 5 of processPayment: result[0].amount throws when the update
\* returned no row
ProcessPaymentReturn(result) ==
  IF result = {}
  THEN Err("processPayment", "TypeError: undefined is not an object")
  ELSE Ok("processPayment", CHOOSE r \in result : TRUE)

\* mutant: the gateway's verdict is ignored
PaymentStatusAlwaysCompleted(gatewayResponse) == "completed"

\* const status = gatewayResponse.success ? 'completed' : 'failed'
PaymentStatusOf(gatewayResponse) ==
  IF gatewayResponse.success THEN "completed" ELSE "failed"

processPayment_updatePayment(p) ==
  /\ pc[p] = "processPayment_updatePayment"
  /\ LET in == loc[p].in
         status == PaymentStatusOf(in.gatewayResponse)
         result == {[r EXCEPT !.status = status,
                              !.payment_data = Some(in.gatewayResponse)] :
                       r \in ById(payments, in.paymentId)}
     IN /\ payments' = {r \in payments : r.id # in.paymentId} \cup result
        /\ IF status = "completed"
           THEN Goto(p, "processPayment_updateInvitation",
                     [op |-> "processPayment", in |-> in,
                      existingPayment |-> loc[p].existingPayment,
                      result |-> result])
           ELSE Return(p, ProcessPaymentReturn(result))
  /\ UNCHANGED <<loginLogs, users, templates, invitations, rsvps, guestbooks, visitors, nextId, now>>

\* mutant: the invitation is not published after a completed payment
processPayment_leaveInvitation(p) ==
  /\ pc[p] = "processPayment_updateInvitation"
  /\ Return(p, ProcessPaymentReturn(loc[p].result))
  /\ UNCHANGED <<tables, nextId, now>>

processPayment_updateInvitation(p) ==
  /\ pc[p] = "processPayment_updateInvitation"
  /\ invitations' =
       {IF i.id = loc[p].existingPayment.invitation_id
        THEN [i EXCEPT !.status = "published", !.published_at = Some(now)]
        ELSE i : i \in invitations}
  /\ Return(p, ProcessPaymentReturn(loc[p].result))
  /\ UNCHANGED <<loginLogs, users, templates, rsvps, guestbooks, payments, visitors, nextId, now>>

(* ---------------------------------------------------------------------- *)
(* Invitations: updateInvitation, publishInvitation, deleteInvitation      *)
(* The repository's src/ has only the declarations of these three (the    *)
(* bodies are placeholders); they are modelled from the specification and  *)
(* from the error messages their tests expect, each as one unit of work.   *)
(* ---------------------------------------------------------------------- *)
UpdateInvitationInputs ==
  [id : IdsOf("invitations"),
   slug : {Absent} \cup {Given(g) : g \in Slugs},
   status : {Absent} \cup {Given(st) : st \in InvStatuses},
   wedding_data : {Absent} \cup {Given(w) : w \in WeddingData}]

Call_updateInvitation(p, in) ==
  /\ Enter(p, "updateInvitation_update", [op |-> "updateInvitation", in |-> in])
  /\ UNCHANGED <<tables, nextId, now>>

\* the row a partial update makes of invitation i
UpdateInvitationRow(i, in) ==
  [i EXCEPT
     !.slug = IF in.slug = Absent THEN @ ELSE in.slug[1],
     !.status = IF in.status = Absent THEN @ ELSE in.status[1],
     !.published_at = IF in.status = Given("published") /\ i.status # "published"
                      THEN Some(now) ELSE @]

updateInvitation_update(p) ==
  /\ pc[p] = "updateInvitation_update"
  /\ LET in == loc[p].in
         hit == ById(invitations, in.id)
     IN IF hit = {}
        THEN /\ UNCHANGED invitations
             /\ Return(p, Err("updateInvitation", "Invitation not found"))
        ELSE LET i == CHOOSE r \in hit : TRUE
                 row == UpdateInvitationRow(i, in)
             IN IF in.slug # Absent /\ ~SlugUniqueOk(invitations, row)
                THEN /\ UNCHANGED invitations
                     /\ Return(p, Err("updateInvitation", "Slug already exists"))
                ELSE IF in.wedding_data # Absent /\ ~IsJson(in.wedding_data[1])
                THEN /\ UNCHANGED invitations
                     /\ Return(p, Err("updateInvitation", "Invalid wedding_data JSON format"))
                ELSE /\ invitations' = (invitations \ {i}) \cup {row}
                     /\ Return(p, Ok("updateInvitation", row))
  /\ UNCHANGED <<loginLogs, users, templates, rsvps, guestbooks, payments, visitors, nextId, now>>

Call_publishInvitation(p, invitationId) ==
  /\ Enter(p, "publishInvitation_publish",
           [op |-> "publishInvitation", in |-> [invitationId |-> invitationId]])
  /\ UNCHANGED <<tables, nextId, now>>

\* mutant: any Payment row will do
PaymentsOfAnyStatus(rows, id) == {r \in rows : r.invitation_id = id}

\* the Payment rows that let invitation id be published
CompletedPayments(rows, id) ==
  {r \in rows : r.invitation_id = id /\ r.status = "completed"}

publishInvitation_publish(p) ==
  /\ pc[p] = "publishInvitation_publish"
  /\ LET id == loc[p].in.invitationId
         hit == ById(invitations, id)
     IN IF hit = {}
        THEN /\ UNCHANGED invitations
             /\ Return(p, Err("publishInvitation", "Invitation not found"))
        ELSE IF CompletedPayments(payments, id) = {}
        THEN /\ UNCHANGED invitations
             /\ Return(p, Err("publishInvitation", "No completed payment found"))
        ELSE LET i == CHOOSE r \in hit : TRUE
                 row == [i EXCEPT !.status = "published", !.published_at = Some(now)]
             IN /\ invitations' = (invitations \ {i}) \cup {row}
                /\ Return(p, Ok("publishInvitation", row))
  /\ UNCHANGED <<loginLogs, users, templates, rsvps, guestbooks, payments, visitors, nextId, now>>

DeleteInvitationInputs == [invitationId : IdsOf("invitations"), userId : IdsOf("users")]

Call_deleteInvitation(p, in) ==
  /\ Enter(p, "deleteInvitation_delete", [op |-> "deleteInvitation", in |-> in])
  /\ UNCHANGED <<tables, nextId, now>>

\* mutant: the cascade leaves the child rows behind
UnreferencingNothing(rows, id) == rows

\* rows of a child table that do not reference invitation id
Unreferencing(rows, id) == {r \in rows : r.invitation_id # id}

\* mutant: an unknown id and another user's invitation get different errors
deleteInvitation_deleteTellingApart(p) ==
  /\ pc[p] = "deleteInvitation_delete"
  /\ LET in == loc[p].in
         owned == {i \in invitations : i.id = in.invitationId /\ i.user_id = in.userId}
     IN IF ById(invitations, in.invitationId) = {}
        THEN /\ UNCHANGED <<invitations, rsvps, guestbooks, payments, visitors>>
             /\ Return(p, Err("deleteInvitation", "Invitation not found"))
        ELSE IF owned = {}
        THEN /\ UNCHANGED <<invitations, rsvps, guestbooks, payments, visitors>>
             /\ Return(p, Err("deleteInvitation", "Access denied"))
        ELSE /\ visitors' = Unreferencing(visitors, in.invitationId)
             /\ guestbooks' = Unreferencing(guestbooks, in.invitationId)
             /\ rsvps' = Unreferencing(rsvps, in.invitationId)
             /\ payments' = Unreferencing(payments, in.invitationId)
             /\ invitations' = invitations \ owned
             /\ Return(p, Ok("deleteInvitation", TRUE))
  /\ UNCHANGED <<loginLogs, users, templates, nextId, now>>

deleteInvitation_delete(p) ==
  /\ pc[p] = "deleteInvitation_delete"
  /\ LET in == loc[p].in
         owned == {i \in invitations : i.id = in.invitationId /\ i.user_id = in.userId}
     IN IF owned = {}
        THEN /\ UNCHANGED <<invitations, rsvps, guestbooks, payments, visitors>>
             /\ Return(p, Err("deleteInvitation", "Invitation not found or access denied"))
        ELSE /\ visitors' = Unreferencing(visitors, in.invitationId)
             /\ guestbooks' = Unreferencing(guestbooks, in.invitationId)
             /\ rsvps' = Unreferencing(rsvps, in.invitationId)
             /\ payments' = Unreferencing(payments, in.invitationId)
             /\ invitations' = invitations \ owned
             /\ Return(p, Ok("deleteInvitation", TRUE))
  /\ UNCHANGED <<loginLogs, users, templates, nextId, now>>

(* ---------------------------------------------------------------------- *)
(* Invitations: getInvitationBySlug                                        *)
(* ---------------------------------------------------------------------- *)
Call_getInvitationBySlug(p, slug) ==
  /\ Enter(p, "getInvitationBySlug_select",
           [op |-> "getInvitationBySlug", in |-> [slug |-> slug]])
  /\ UNCHANGED <<tables, nextId, now>>

getInvitationBySlug_select(p) ==
  /\ pc[p] = "getInvitationBySlug_select"
  /\ LET results == {i \in invitations : i.slug = loc[p].in.slug /\ i.status = "published"}
     IN IF results = {}
        THEN Return(p, Ok("getInvitationBySlug", Null))
        ELSE Goto(p, "getInvitationBySlug_update",
                  [op |-> "getInvitationBySlug", in |-> loc[p].in,
                   invitation |-> CHOOSE i \in results : TRUE])
  /\ UNCHANGED <<tables, nextId, now>>

\* .set({ view_count: invitation.view_count + 1 }): the value written is
\* computed by the caller from the row it selected
SlugViewCount(invitation, stored) == invitation.view_count + 1

getInvitationBySlug_update(p) ==
  /\ pc[p] = "getInvitationBySlug_update"
  /\ LET invitation == loc[p].invitation
     IN /\ invitations' =
             {IF i.id = invitation.id
              THEN [i EXCEPT !.view_count = SlugViewCount(invitation, i)]
              ELSE i : i \in invitations}
        /\ Return(p, Ok("getInvitationBySlug",
                        Some([invitation EXCEPT !.view_count = invitation.view_count + 1])))
  /\ UNCHANGED <<loginLogs, users, templates, rsvps, guestbooks, payments, visitors, nextId, now>>

(* ---------------------------------------------------------------------- *)
(* Invitations: getInvitations, getInvitationById                          *)
(* ---------------------------------------------------------------------- *)
\* if (!userId): undefined and 0 both take the public branch
NoUserId(userId) == userId = Absent \/ userId = Given(0)

\* userId?: z.number().optional()
UserIdInputs == {Absent} \cup {Given(u) : u \in 0..nextId.users}

Call_getInvitations(p, userId) ==
  /\ Enter(p, "getInvitations_select",
           [op |-> "getInvitations", in |-> [userId |-> userId]])
  /\ UNCHANGED <<tables, nextId, now>>

\* the first statement: the public select, or the select of the caller
getInvitations_select(p) ==
  /\ pc[p] = "getInvitations_select"
  /\ LET userId == loc[p].in.userId
     IN IF NoUserId(userId)
        THEN Return(p, Ok("getInvitations", {i \in invitations : i.status = "published"}))
        ELSE LET userResults == ById(users, userId[1])
             IN IF userResults = {}
                THEN Return(p, Err("getInvitations", "User not found"))
                ELSE Goto(p, "getInvitations_selectByRole",
                          [op |-> "getInvitations", in |-> loc[p].in,
                           user |-> CHOOSE u \in userResults : TRUE])
  /\ UNCHANGED <<tables, nextId, now>>

\* mutant: every role is served like super_admin
InvitationsForAnyone(rows, user) == rows

\* the rows the role's query selects
InvitationsFor(rows, user) ==
  IF user.role = "super_admin" THEN rows
  ELSE IF user.role \in {"user_mitra", "user_customer"}
  THEN {i \in rows : i.user_id = user.id}
  ELSE {}

getInvitations_selectByRole(p) ==
  /\ pc[p] = "getInvitations_selectByRole"
  /\ Return(p, Ok("getInvitations", InvitationsFor(invitations, loc[p].user)))
  /\ UNCHANGED <<tables, nextId, now>>

GetInvitationByIdInputs == [id : IdsOf("invitations"), userId : UserIdInputs]

Call_getInvitationById(p, in) ==
  /\ Enter(p, "getInvitationById_select", [op |-> "getInvitationById", in |-> in])
  /\ UNCHANGED <<tables, nextId, now>>

getInvitationById_select(p) ==
  /\ pc[p] = "getInvitationById_select"
  /\ LET results == ById(invitations, loc[p].in.id)
     IN IF results = {}
        THEN Return(p, Ok("getInvitationById", Null))
        ELSE LET invitation == CHOOSE i \in results : TRUE
             IN IF NoUserId(loc[p].in.userId)
                THEN Return(p, Ok("getInvitationById",
                                  IF invitation.status = "published"
                                  THEN Some(invitation) ELSE Null))
                ELSE Goto(p, "getInvitationById_selectUser",
                          [op |-> "getInvitationById", in |-> loc[p].in,
                           invitation |-> invitation])
  /\ UNCHANGED <<tables, nextId, now>>

getInvitationById_selectUser(p) ==
  /\ pc[p] = "getInvitationById_selectUser"
  /\ LET userResults == ById(users, loc[p].in.userId[1])
         invitation == loc[p].invitation
     IN IF userResults = {}
        THEN Return(p, Err("getInvitationById", "User not found"))
        ELSE LET user == CHOOSE u \in userResults : TRUE
             IN Return(p, Ok("getInvitationById",
                             IF InvitationsFor({invitation}, user) # {}
                             THEN Some(invitation) ELSE Null))
  /\ UNCHANGED <<tables, nextId, now>>

(* ---------------------------------------------------------------------- *)
(* Visitors: logVisitor                                                    *)
(* ---------------------------------------------------------------------- *)
\* encryptField: Buffer.from(value).toString('base64')
EncryptField(value) == [base64 |-> value]

IpAddresses == {"10.0.0.7"}

LogVisitorInputs == [invitationId : IdsOf("invitations"), ipAddress : IpAddresses]

Call_logVisitor(p, in) ==
  /\ Enter(p, "logVisitor_select", [op |-> "logVisitor", in |-> in])
  /\ UNCHANGED <<tables, nextId, now>>

\* first statement of the transaction; a throw rolls the transaction back
logVisitor_select(p) ==
  /\ pc[p] = "logVisitor_select"
  /\ LET invitation == ById(invitations, loc[p].in.invitationId)
     IN IF invitation = {}
        THEN Return(p, Err("logVisitor", "Invitation not found"))
        ELSE Goto(p, "logVisitor_commit",
                  [op |-> "logVisitor", in |-> loc[p].in, invitation |-> invitation])
  /\ UNCHANGED <<tables, nextId, now>>

\* mutant: the count is computed by the caller from the row it selected
VisitorViewCountFromSelected(selected, stored) == selected.view_count + 1

\* view_count: sql`view_count + 1`, computed by the store from the stored row
VisitorViewCount(selected, stored) == stored.view_count + 1

\* The insert and the update become visible together at commit.  The update
\* holds the row lock until then, so no other write to the invitation comes
\* between its read of view_count and the commit.
logVisitor_commit(p) ==
  /\ pc[p] = "logVisitor_commit"
  /\ LET in == loc[p].in
         visitor == [id |-> nextId.visitors,
                     invitation_id |-> in.invitationId,
                     ip_address |-> EncryptField(in.ipAddress)]
     IN /\ visitors' = visitors \cup {visitor}
        /\ nextId' = [nextId EXCEPT !.visitors = @ + 1]
        /\ invitations' =
             {IF i.id = in.invitationId
              THEN [i EXCEPT !.view_count =
                      VisitorViewCount(CHOOSE s \in loc[p].invitation : TRUE, i)]
              ELSE i : i \in invitations}
        /\ Return(p, Ok("logVisitor", [visitor EXCEPT !.ip_address = in.ipAddress]))
  /\ UNCHANGED <<loginLogs, users, templates, rsvps, guestbooks, payments, now>>

(* ---------------------------------------------------------------------- *)
(* Rsvps: createRsvp                                                       *)
(* ---------------------------------------------------------------------- *)
\* if (input.guest_email): null and the empty string are both falsy
Truthy(text) == text # Null /\ text # Some("")

CreateRsvpInputs ==
  [invitation_id : IdsOf("invitations"), guest_name : GuestNames,
   guest_email : GuestEmails, guest_phone : GuestPhones]

Call_createRsvp(p, in) ==
  /\ Enter(p, "createRsvp_selectInvitation", [op |-> "createRsvp", in |-> in])
  /\ UNCHANGED <<tables, nextId, now>>

\* expires_at && expires_at < new Date()
Expired(i) == i.expires_at # Null /\ i.expires_at[1] < now

createRsvp_selectInvitation(p) ==
  /\ pc[p] = "createRsvp_selectInvitation"
  /\ LET found == ById(invitations, loc[p].in.invitation_id)
     IN IF found = {}
        THEN Return(p, Err("createRsvp", "Invitation not found"))
        ELSE LET invitation == CHOOSE i \in found : TRUE
             IN IF invitation.status # "published"
                THEN Return(p, Err("createRsvp", "Invitation is not published"))
                ELSE IF Expired(invitation)
                THEN Return(p, Err("createRsvp", "Invitation has expired"))
                ELSE Goto(p, "createRsvp_selectExisting", loc[p])
  /\ UNCHANGED <<tables, nextId, now>>

\* the rows the duplicate check's or(...conditions) selects
ExistingRsvps(rows, in) ==
  {r \in rows :
     \/ r.invitation_id = in.invitation_id /\ r.guest_name = in.guest_name
     \/ /\ Truthy(in.guest_email)
        /\ r.invitation_id = in.invitation_id /\ r.guest_email = in.guest_email
     \/ /\ Truthy(in.guest_phone)
        /\ r.invitation_id = in.invitation_id /\ r.guest_phone = in.guest_phone}

createRsvp_selectExisting(p) ==
  /\ pc[p] = "createRsvp_selectExisting"
  /\ IF ExistingRsvps(rsvps, loc[p].in) # {}
     THEN Return(p, Err("createRsvp", "Guest has already responded to this invitation"))
     ELSE Goto(p, "createRsvp_insert", loc[p])
  /\ UNCHANGED <<tables, nextId, now>>

createRsvp_insert(p) ==
  /\ pc[p] = "createRsvp_insert"
  /\ LET in == loc[p].in
         createdRsvp == [id |-> nextId.rsvps,
                         invitation_id |-> in.invitation_id,
                         guest_name |-> in.guest_name,
                         guest_email |-> in.guest_email,
                         guest_phone |-> in.guest_phone]
     IN /\ rsvps' = rsvps \cup {createdRsvp}
        /\ nextId' = [nextId EXCEPT !.rsvps = @ + 1]
        /\ Goto(p, "createRsvp_increment",
                [op |-> "createRsvp", in |-> in, createdRsvp |-> createdRsvp])
  /\ UNCHANGED <<loginLogs, users, templates, invitations, guestbooks, payments, visitors, now>>

\* mutant: the update has no where clause and counts on every invitation
createRsvp_incrementEverywhere(p) ==
  /\ pc[p] = "createRsvp_increment"
  /\ invitations' = {[i EXCEPT !.rsvp_count = @ + 1] : i \in invitations}
  /\ Return(p, Ok("createRsvp", loc[p].createdRsvp))
  /\ UNCHANGED <<loginLogs, users, templates, rsvps, guestbooks, payments, visitors, nextId, now>>

createRsvp_increment(p) ==
  /\ pc[p] = "createRsvp_increment"
  /\ invitations' =
       {IF i.id = loc[p].in.invitation_id
        THEN [i EXCEPT !.rsvp_count = @ + 1]
        ELSE i : i \in invitations}
  /\ Return(p, Ok("createRsvp", loc[p].createdRsvp))
  /\ UNCHANGED <<loginLogs, users, templates, rsvps, guestbooks, payments, visitors, nextId, now>>

(* ---------------------------------------------------------------------- *)
(* Guestbook: createGuestbook                                              *)
(* ---------------------------------------------------------------------- *)
\* messages, as sequences of characters
Messages == {<<"h", "i">>, <<"S", "p", "A", "m", "!">>}

ToLowerCase(text) ==
  [k \in DOMAIN text |->
     CASE text[k] = "S" -> "s"
       [] text[k] = "A" -> "a"
       [] OTHER -> text[k]]

\* text.includes(word)
Includes(text, word) ==
  \E k \in 0..(Len(text) - Len(word)) :
    \A j \in 1..Len(word) : text[k + j] = word[j]

inappropriateWords ==
  {<<"s", "p", "a", "m">>, <<"s", "c", "a", "m">>,
   <<"f", "a", "k", "e">>, <<"h", "a", "t", "e">>}

CreateGuestbookInputs ==
  [invitation_id : IdsOf("invitations"), guest_name : GuestNames, message : Messages]

Call_createGuestbook(p, in) ==
  /\ Enter(p, "createGuestbook_select", [op |-> "createGuestbook", in |-> in])
  /\ UNCHANGED <<tables, nextId, now>>

createGuestbook_select(p) ==
  /\ pc[p] = "createGuestbook_select"
  /\ LET invitation == ById(invitations, loc[p].in.invitation_id)
     IN IF invitation = {}
        THEN Return(p, Err("createGuestbook", "Invitation not found"))
        ELSE IF (CHOOSE i \in invitation : TRUE).status # "published"
        THEN Return(p, Err("createGuestbook", "Invitation is not published"))
        ELSE Goto(p, "createGuestbook_insert", loc[p])
  /\ UNCHANGED <<tables, nextId, now>>

createGuestbook_insert(p) ==
  /\ pc[p] = "createGuestbook_insert"
  /\ LET in == loc[p].in
         lowerMessage == ToLowerCase(in.message)
         hasInappropriateContent ==
           \E word \in inappropriateWords : Includes(lowerMessage, word)
         guestbook == [id |-> nextId.guestbooks,
                       invitation_id |-> in.invitation_id,
                       guest_name |-> in.guest_name,
                       message |-> in.message,
                       is_approved |-> ~hasInappropriateContent]
     IN /\ guestbooks' = guestbooks \cup {guestbook}
        /\ nextId' = [nextId EXCEPT !.guestbooks = @ + 1]
        /\ Return(p, Ok("createGuestbook", guestbook))
  /\ UNCHANGED <<loginLogs, users, templates, invitations, rsvps, payments, visitors, now>>

(* ---------------------------------------------------------------------- *)
(* Guestbook: getGuestbookEntries, approveGuestbookEntry,                  *)
(* deleteGuestbookEntry                                                    *)
(* ---------------------------------------------------------------------- *)
GetGuestbookEntriesInputs ==
  [invitationId : IdsOf("invitations"),
   includeUnapproved : {Absent, Given(FALSE), Given(TRUE)}]

Call_getGuestbookEntries(p, in) ==
  /\ Enter(p, "getGuestbookEntries_select", [op |-> "getGuestbookEntries", in |-> in])
  /\ UNCHANGED <<tables, nextId, now>>

\* mutant: the approval flag is not among the conditions
GuestbookConditionsWithoutApproval(g, invitationId, includeUnapproved) ==
  g.invitation_id = invitationId

\* includeUnapproved: boolean = false; the conditions of the where clause
GuestbookConditions(g, invitationId, includeUnapproved) ==
  /\ g.invitation_id = invitationId
  /\ includeUnapproved # Given(TRUE) => g.is_approved

\* orderBy(desc(created_at)): rows carry no created_at here, the serial id
\* stands for the order of creation
RECURSIVE NewestFirst(_)
NewestFirst(rows) ==
  IF rows = {} THEN <<>>
  ELSE LET newest == CHOOSE g \in rows : \A h \in rows : h.id <= g.id
       IN <<newest>> \o NewestFirst(rows \ {newest})

getGuestbookEntries_select(p) ==
  /\ pc[p] = "getGuestbookEntries_select"
  /\ LET in == loc[p].in
         results == {g \in guestbooks :
                       GuestbookConditions(g, in.invitationId, in.includeUnapproved)}
     IN Return(p, Ok("getGuestbookEntries", NewestFirst(results)))
  /\ UNCHANGED <<tables, nextId, now>>

ModerationInputs == [entryId : IdsOf("guestbooks"), userId : IdsOf("users")]

\* guestbooks inner join invitations, where guestbooks.id = entryId
GuestbookWithInvitation(entryId) ==
  {[guestbook_user_id |-> i.user_id, entry_id |-> g.id] :
     <<g, i>> \in {gi \in guestbooks \X invitations :
                     gi[1].id = entryId /\ gi[1].invitation_id = gi[2].id}}

\* mutant: any user passes for the owner
NotOwnerNever(row, userId) == FALSE

\* guestbookWithInvitation[0].guestbook_user_id !== userId
NotOwner(row, userId) == row.guestbook_user_id # userId

Call_approveGuestbookEntry(p, in) ==
  /\ Enter(p, "approveGuestbookEntry_select", [op |-> "approveGuestbookEntry", in |-> in])
  /\ UNCHANGED <<tables, nextId, now>>

approveGuestbookEntry_select(p) ==
  /\ pc[p] = "approveGuestbookEntry_select"
  /\ LET guestbookWithInvitation == GuestbookWithInvitation(loc[p].in.entryId)
     IN IF guestbookWithInvitation = {}
        THEN Return(p, Err("approveGuestbookEntry", "Guestbook entry not found"))
        ELSE IF NotOwner(CHOOSE r \in guestbookWithInvitation : TRUE, loc[p].in.userId)
        THEN Return(p, Err("approveGuestbookEntry", "User does not own this invitation"))
        ELSE Goto(p, "approveGuestbookEntry_update", loc[p])
  /\ UNCHANGED <<tables, nextId, now>>

approveGuestbookEntry_update(p) ==
  /\ pc[p] = "approveGuestbookEntry_update"
  /\ LET result == {[g EXCEPT !.is_approved = TRUE] :
                      g \in {h \in guestbooks : h.id = loc[p].in.entryId}}
     IN /\ guestbooks' = {g \in guestbooks : g.id # loc[p].in.entryId} \cup result
        /\ IF result = {}
           THEN Return(p, Err("approveGuestbookEntry", "Failed to approve guestbook entry"))
           ELSE Return(p, Ok("approveGuestbookEntry", CHOOSE g \in result : TRUE))
  /\ UNCHANGED <<loginLogs, users, templates, invitations, rsvps, payments, visitors, nextId, now>>

Call_deleteGuestbookEntry(p, in) ==
  /\ Enter(p, "deleteGuestbookEntry_select", [op |-> "deleteGuestbookEntry", in |-> in])
  /\ UNCHANGED <<tables, nextId, now>>

deleteGuestbookEntry_select(p) ==
  /\ pc[p] = "deleteGuestbookEntry_select"
  /\ LET guestbookWithInvitation == GuestbookWithInvitation(loc[p].in.entryId)
     IN IF guestbookWithInvitation = {}
        THEN Return(p, Err("deleteGuestbookEntry", "Guestbook entry not found"))
        ELSE IF NotOwner(CHOOSE r \in guestbookWithInvitation : TRUE, loc[p].in.userId)
        THEN Return(p, Err("deleteGuestbookEntry", "User does not own this invitation"))
        ELSE Goto(p, "deleteGuestbookEntry_delete", loc[p])
  /\ UNCHANGED <<tables, nextId, now>>

deleteGuestbookEntry_delete(p) ==
  /\ pc[p] = "deleteGuestbookEntry_delete"
  /\ guestbooks' = {g \in guestbooks : g.id # loc[p].in.entryId}
  /\ Goto(p, "deleteGuestbookEntry_check", loc[p])
  /\ UNCHANGED <<loginLogs, users, templates, invitations, rsvps, payments, visitors, nextId, now>>

deleteGuestbookEntry_check(p) ==
  /\ pc[p] = "deleteGuestbookEntry_check"
  /\ LET checkDeleted == {g \in guestbooks : g.id = loc[p].in.entryId}
     IN Return(p, Ok("deleteGuestbookEntry", checkDeleted = {}))
  /\ UNCHANGED <<tables, nextId, now>>

(* ---------------------------------------------------------------------- *)
(* Specifications                                                          *)
(* ---------------------------------------------------------------------- *)
\* the store after createUser for two customers and one createTemplate
SeedUsers ==
  {[id |-> 1, username |-> "alice", email |-> EncryptDet("a@x.io"),
    password_hash |-> HashString("hunter22", "5a17"),
    role |-> "user_customer", status |-> "active", last_login |-> Null,
    approved_by |-> Null, approved_at |-> Null],
   [id |-> 2, username |-> "bob", email |-> EncryptDet("b@x.io"),
    password_hash |-> HashString("hunter22", "5a17"),
    role |-> "user_customer", status |-> "active", last_login |-> Null,
    approved_by |-> Null, approved_at |-> Null]}

InitStore ==
  /\ users = SeedUsers
  /\ loginLogs = {}
  /\ templates = {[id |-> 1, is_active |-> TRUE]}
  /\ invitations = {}
  /\ rsvps = {}
  /\ guestbooks = {}
  /\ payments = {}
  /\ visitors = {}
  /\ nextId = [t \in Tables |-> IF t = "users" THEN 3 ELSE IF t = "templates" THEN 2 ELSE 1]
  /\ now = 1
  /\ pc = [p \in Procs |-> "idle"]
  /\ loc = [p \in Procs |-> NoCall]
  /\ res = [p \in Procs |-> NoCall]

\* the publishing life cycle of invitations, one request at a time
NextPublish ==
  \E p \in {1} :
    \/ \E in \in {c \in CreateInvitationInputs :
                    c.template_id = 1 /\ c.wedding_data = "{}" /\ c.expires_at = Null} :
         Room("invitations", "createInvitation", MaxInv) /\ Call_createInvitation(p, in)
    \/ createInvitation_selectSlug(p)
    \/ createInvitation_selectUser(p)
    \/ createInvitation_selectTemplate(p)
    \/ createInvitation_insert(p)
    \/ \E in \in {u \in UpdateInvitationInputs :
                    /\ u.wedding_data = Absent /\ u.slug = Absent
                    /\ u.status \in {Absent, Given("draft"), Given("published")}} :
         Call_updateInvitation(p, in)
    \/ updateInvitation_update(p)
    \/ \E id \in IdsOf("invitations") : Call_publishInvitation(p, id)
    \/ publishInvitation_publish(p)
    \/ \E in \in CreatePaymentInputs :
         Room("payments", "createPayment", MaxPay) /\ Call_createPayment(p, in)
    \/ createPayment_selectUser(p)
    \/ createPayment_selectInvitation(p)
    \/ createPayment_selectOwned(p)
    \/ createPayment_insert(p)
    \/ \E in \in ProcessPaymentInputs : Call_processPayment(p, in)
    \/ processPayment_select(p)
    \/ processPayment_updatePayment(p)
    \/ processPayment_updateInvitation(p)
    \/ \E in \in DeleteInvitationInputs : Call_deleteInvitation(p, in)
    \/ deleteInvitation_delete(p)

SpecPublish == InitStore /\ [][NextPublish]_vars

\* the same without updateInvitation: publishing through payments only
NextPaywall ==
  \E p \in {1} :
    \/ \E in \in {c \in CreateInvitationInputs :
                    c.template_id = 1 /\ c.wedding_data = "{}" /\ c.expires_at = Null} :
         Room("invitations", "createInvitation", MaxInv) /\ Call_createInvitation(p, in)
    \/ createInvitation_selectSlug(p)
    \/ createInvitation_selectUser(p)
    \/ createInvitation_selectTemplate(p)
    \/ createInvitation_insert(p)
    \/ \E id \in IdsOf("invitations") : Call_publishInvitation(p, id)
    \/ publishInvitation_publish(p)
    \/ \E in \in CreatePaymentInputs :
         Room("payments", "createPayment", MaxPay) /\ Call_createPayment(p, in)
    \/ createPayment_selectUser(p)
    \/ createPayment_selectInvitation(p)
    \/ createPayment_selectOwned(p)
    \/ createPayment_insert(p)
    \/ \E in \in ProcessPaymentInputs : Call_processPayment(p, in)
    \/ processPayment_select(p)
    \/ processPayment_updatePayment(p)
    \/ processPayment_updateInvitation(p)
    \/ \E in \in DeleteInvitationInputs : Call_deleteInvitation(p, in)
    \/ deleteInvitation_delete(p)

SpecPaywall == InitStore /\ [][NextPaywall]_vars

\* the store after two createInvitation calls, a createPayment for the
\* first invitation and processPayment reporting success for it: invitation 1
\* is published and expires when the clock passes 1, invitation 2 is a draft
\* of another user
SeedInvitations ==
  {[id |-> 1, user_id |-> 1, template_id |-> 1, slug |-> "anna-ben",
    status |-> "published", view_count |-> 0, rsvp_count |-> 0,
    published_at |-> Some(1), expires_at |-> Some(1)],
   [id |-> 2, user_id |-> 2, template_id |-> 1, slug |-> "Anna-Ben",
    status |-> "draft", view_count |-> 0, rsvp_count |-> 0,
    published_at |-> Null, expires_at |-> Null]}

SeedPayments ==
  {[id |-> 1, user_id |-> 1, invitation_id |-> 1, status |-> "completed",
    payment_data |-> Some([success |-> TRUE])]}

InitPublished ==
  /\ users = SeedUsers
  /\ loginLogs = {}
  /\ templates = {[id |-> 1, is_active |-> TRUE]}
  /\ invitations = SeedInvitations
  /\ rsvps = {}
  /\ guestbooks = {}
  /\ payments = SeedPayments
  /\ visitors = {}
  /\ nextId = [t \in Tables |->
                 CASE t = "users" -> 3
                   [] t = "templates" -> 2
                   [] t = "invitations" -> 3
                   [] t = "payments" -> 2
                   [] OTHER -> 1]
  /\ now = 1
  /\ pc = [p \in Procs |-> "idle"]
  /\ loc = [p \in Procs |-> NoCall]
  /\ res = [p \in Procs |-> NoCall]

\* an invitation still takes a getInvitationBySlug call
ViewsRoom(slug) ==
  \A i \in invitations :
    i.slug = slug => i.view_count + InFlight({"getInvitationBySlug"}) < MaxViews

\* public page views: concurrent getInvitationBySlug and logVisitor requests
NextViews ==
  \E p \in Procs :
    \/ \E slug \in Slugs : ViewsRoom(slug) /\ Call_getInvitationBySlug(p, slug)
    \/ getInvitationBySlug_select(p)
    \/ getInvitationBySlug_update(p)
    \/ \E in \in LogVisitorInputs :
         Room("visitors", "logVisitor", MaxVis) /\ Call_logVisitor(p, in)
    \/ logVisitor_select(p)
    \/ logVisitor_commit(p)

SpecViews == InitPublished /\ [][NextViews]_vars

\* visitor logging alone: concurrent logVisitor requests
NextVisitors ==
  \E p \in Procs :
    \/ \E in \in LogVisitorInputs :
         Room("visitors", "logVisitor", MaxVis) /\ Call_logVisitor(p, in)
    \/ logVisitor_select(p)
    \/ logVisitor_commit(p)

SpecVisitors == InitPublished /\ [][NextVisitors]_vars

\* guests answering: concurrent createRsvp requests while the clock runs
NextRsvp ==
  \/ Tick
  \/ \E p \in Procs :
    \/ \E in \in CreateRsvpInputs :
         Room("rsvps", "createRsvp", MaxRsvp) /\ Call_createRsvp(p, in)
    \/ createRsvp_selectInvitation(p)
    \/ createRsvp_selectExisting(p)
    \/ createRsvp_insert(p)
    \/ createRsvp_increment(p)

SpecRsvp == InitPublished /\ [][NextRsvp]_vars

\* an owner cleaning up: guests leave rows on the invitations, owners pay for
\* and delete them, one request at a time
NextDelete ==
  \E p \in {1} :
    \/ \E in \in {c \in CreateRsvpInputs :
                    c.guest_email = Null /\ c.guest_phone = Null /\ c.guest_name = "Gina"} :
         Room("rsvps", "createRsvp", MaxRsvp) /\ Call_createRsvp(p, in)
    \/ createRsvp_selectInvitation(p)
    \/ createRsvp_selectExisting(p)
    \/ createRsvp_insert(p)
    \/ createRsvp_increment(p)
    \/ \E in \in {c \in CreateGuestbookInputs : c.guest_name = "Gina"} :
         Room("guestbooks", "createGuestbook", MaxGb) /\ Call_createGuestbook(p, in)
    \/ createGuestbook_select(p)
    \/ createGuestbook_insert(p)
    \/ \E in \in LogVisitorInputs :
         Room("visitors", "logVisitor", MaxVis) /\ Call_logVisitor(p, in)
    \/ logVisitor_select(p)
    \/ logVisitor_commit(p)
    \/ \E in \in CreatePaymentInputs :
         Room("payments", "createPayment", MaxPay + 1) /\ Call_createPayment(p, in)
    \/ createPayment_selectUser(p)
    \/ createPayment_selectInvitation(p)
    \/ createPayment_selectOwned(p)
    \/ createPayment_insert(p)
    \/ \E in \in DeleteInvitationInputs : Call_deleteInvitation(p, in)
    \/ deleteInvitation_delete(p)

SpecDelete == InitPublished /\ [][NextDelete]_vars

\* slugs: concurrent createInvitation requests, slug changes and deletions
NextSlug ==
  \E p \in Procs :
    \/ \E in \in {c \in CreateInvitationInputs :
                    /\ c.user_id \in {1, 2} /\ c.template_id = 1
                    /\ c.wedding_data = "{}" /\ c.expires_at = Null} :
         Room("invitations", "createInvitation", MaxInv) /\ Call_createInvitation(p, in)
    \/ createInvitation_selectSlug(p)
    \/ createInvitation_selectUser(p)
    \/ createInvitation_selectTemplate(p)
    \/ createInvitation_insert(p)
    \/ \E in \in {u \in UpdateInvitationInputs :
                    u.wedding_data = Absent /\ u.status = Absent /\ u.slug # Absent} :
         Call_updateInvitation(p, in)
    \/ updateInvitation_update(p)

SpecSlug == InitStore /\ [][NextSlug]_vars

\* registration and profile maintenance, from an empty store.  Each of these
\* handlers is a single statement, so one request at a time shows every
\* outcome their interleavings have.
NextUsers ==
  \E p \in {1} :
    \/ \E in \in {c \in CreateUserInputs : c.password = "hunter22"} :
         Room("users", "createUser", MaxUsers) /\ Call_createUser(p, in)
    \/ createUser_insert(p)
    \/ \E in \in {u \in UpdateUserInputs : u.status = Absent /\ u.approved_by = Absent} :
         Call_updateUser(p, in)
    \/ updateUser_update(p)

SpecUsers == InitEmpty /\ [][NextUsers]_vars

\* the store guests meet: invitation 1 published and expiring when the clock
\* passes 1, invitation 2 a draft with the same expiry, invitation 3 published
\* and never expiring
SeedGuestInvitations ==
  {[id |-> 1, user_id |-> 1, template_id |-> 1, slug |-> "anna-ben",
    status |-> "published", view_count |-> 0, rsvp_count |-> 0,
    published_at |-> Some(1), expires_at |-> Some(1)],
   [id |-> 2, user_id |-> 2, template_id |-> 1, slug |-> "Anna-Ben",
    status |-> "draft", view_count |-> 0, rsvp_count |-> 0,
    published_at |-> Null, expires_at |-> Some(1)],
   [id |-> 3, user_id |-> 1, template_id |-> 1, slug |-> "cleo-dan",
    status |-> "published", view_count |-> 0, rsvp_count |-> 0,
    published_at |-> Some(1), expires_at |-> Null]}

InitGuests ==
  /\ users = SeedUsers
  /\ loginLogs = {}
  /\ templates = {[id |-> 1, is_active |-> TRUE]}
  /\ invitations = SeedGuestInvitations
  /\ rsvps = {}
  /\ guestbooks = {}
  /\ payments = {}
  /\ visitors = {}
  /\ nextId = [t \in Tables |->
                 CASE t = "users" -> 3
                   [] t = "templates" -> 2
                   [] t = "invitations" -> 4
                   [] OTHER -> 1]
  /\ now = 1
  /\ pc = [p \in Procs |-> "idle"]
  /\ loc = [p \in Procs |-> NoCall]
  /\ res = [p \in Procs |-> NoCall]

\* guests answering one at a time while the clock runs
NextGuests ==
  \/ Tick
  \/ \E p \in {1} :
    \/ \E in \in CreateRsvpInputs :
         Room("rsvps", "createRsvp", MaxRsvp) /\ Call_createRsvp(p, in)
    \/ createRsvp_selectInvitation(p)
    \/ createRsvp_selectExisting(p)
    \/ createRsvp_insert(p)
    \/ createRsvp_increment(p)

SpecGuests == InitGuests /\ [][NextGuests]_vars

\* the publish scenario, from an empty store: a customer registers, a
\* template is made, the customer creates an invitation, pays for it and the
\* gateway reports success; guests try to answer at every point where the
\* invitation exists
NextScenario ==
  \E p \in {1} :
    \/ \E in \in {c \in CreateUserInputs :
                    c.role = "user_customer" /\ c.password = "hunter22"} :
         users = {} /\ Call_createUser(p, in)
    \/ createUser_insert(p)
    \/ \E in \in CreateTemplateInputs :
         users # {} /\ templates = {} /\ Call_createTemplate(p, in)
    \/ createTemplate_insert(p)
    \/ \E in \in {c \in CreateInvitationInputs : c.expires_at = Null} :
         templates # {} /\ invitations = {} /\ Call_createInvitation(p, in)
    \/ createInvitation_selectSlug(p)
    \/ createInvitation_selectUser(p)
    \/ createInvitation_selectTemplate(p)
    \/ createInvitation_insert(p)
    \/ \E in \in CreatePaymentInputs :
         invitations # {} /\ payments = {} /\ Call_createPayment(p, in)
    \/ createPayment_selectUser(p)
    \/ createPayment_selectInvitation(p)
    \/ createPayment_selectOwned(p)
    \/ createPayment_insert(p)
    \/ \E in \in {c \in ProcessPaymentInputs : c.gatewayResponse.success} :
         (\E r \in payments : r.status = "pending") /\ Call_processPayment(p, in)
    \/ processPayment_select(p)
    \/ processPayment_updatePayment(p)
    \/ processPayment_updateInvitation(p)
    \/ \E in \in {c \in CreateRsvpInputs :
                    c.invitation_id \in {i.id : i \in invitations}} :
         Room("rsvps", "createRsvp", MaxRsvp) /\ Call_createRsvp(p, in)
    \/ createRsvp_selectInvitation(p)
    \/ createRsvp_selectExisting(p)
    \/ createRsvp_insert(p)
    \/ createRsvp_increment(p)

SpecScenario == InitEmpty /\ [][NextScenario]_vars

\* one user of each role; the mitra still waits for approval
SeedRoleUsers ==
  {[id |-> 1, username |-> "root", email |-> EncryptDet("r@x.io"),
    password_hash |-> HashString("hunter22", "5a17"),
    role |-> "super_admin", status |-> "active", last_login |-> Null,
    approved_by |-> Null, approved_at |-> Null],
   [id |-> 2, username |-> "alice", email |-> EncryptDet("a@x.io"),
    password_hash |-> HashString("hunter22", "5a17"),
    role |-> "user_mitra", status |-> "pending", last_login |-> Null,
    approved_by |-> Null, approved_at |-> Null],
   [id |-> 3, username |-> "bob", email |-> EncryptDet("b@x.io"),
    password_hash |-> HashString("hunter22", "5a17"),
    role |-> "user_customer", status |-> "active", last_login |-> Null,
    approved_by |-> Null, approved_at |-> Null]}

\* a published invitation of the mitra, a draft and a published one of the
\* customer
SeedRoleInvitations ==
  {[id |-> 1, user_id |-> 2, template_id |-> 1, slug |-> "anna-ben",
    status |-> "published", view_count |-> 0, rsvp_count |-> 0,
    published_at |-> Some(1), expires_at |-> Null],
   [id |-> 2, user_id |-> 3, template_id |-> 1, slug |-> "Anna-Ben",
    status |-> "draft", view_count |-> 0, rsvp_count |-> 0,
    published_at |-> Null, expires_at |-> Null],
   [id |-> 3, user_id |-> 3, template_id |-> 1, slug |-> "cleo-dan",
    status |-> "published", view_count |-> 0, rsvp_count |-> 0,
    published_at |-> Some(1), expires_at |-> Null]}

InitRoles ==
  /\ users = SeedRoleUsers
  /\ loginLogs = {}
  /\ templates = {[id |-> 1, is_active |-> TRUE]}
  /\ invitations = SeedRoleInvitations
  /\ rsvps = {}
  /\ guestbooks = {}
  /\ payments = {}
  /\ visitors = {}
  /\ nextId = [t \in Tables |->
                 CASE t = "users" -> 4
                   [] t = "templates" -> 2
                   [] t = "invitations" -> 4
                   [] OTHER -> 1]
  /\ now = 1
  /\ pc = [p \in Procs |-> "idle"]
  /\ loc = [p \in Procs |-> NoCall]
  /\ res = [p \in Procs |-> NoCall]

\* dashboards and public pages reading invitations while owners pay for
\* them, one request at a time
NextVisibility ==
  \E p \in {1} :
    \/ \E in \in CreatePaymentInputs :
         Room("payments", "createPayment", MaxPay) /\ Call_createPayment(p, in)
    \/ createPayment_selectUser(p)
    \/ createPayment_selectInvitation(p)
    \/ createPayment_selectOwned(p)
    \/ createPayment_insert(p)
    \/ \E in \in ProcessPaymentInputs : Call_processPayment(p, in)
    \/ processPayment_select(p)
    \/ processPayment_updatePayment(p)
    \/ processPayment_updateInvitation(p)
    \/ \E userId \in UserIdInputs : Call_getInvitations(p, userId)
    \/ getInvitations_select(p)
    \/ getInvitations_selectByRole(p)
    \/ \E in \in GetInvitationByIdInputs : Call_getInvitationById(p, in)
    \/ getInvitationById_select(p)
    \/ getInvitationById_selectUser(p)

SpecVisibility == InitRoles /\ [][NextVisibility]_vars

\* registration and approval, from an empty store, one request at a time
\* while the clock runs
NextApproval ==
  \/ Tick
  \/ \E p \in {1} :
    \/ \E in \in {c \in CreateUserInputs :
                    /\ c.password = "hunter22"
                    /\ c.email = "a@x.io" <=> c.username = "alice"} :
         Room("users", "createUser", MaxUsers) /\ Call_createUser(p, in)
    \/ createUser_insert(p)
    \/ \E in \in {u \in UpdateUserInputs :
                    u.email = Absent /\ (u.status = Absent \/ u.approved_by = Absent)} :
         Call_updateUser(p, in)
    \/ updateUser_update(p)
    \/ \E in \in {a \in ApproveUserInputs : a.approverId = 1} : Call_approveUser(p, in)
    \/ approveUser_update(p)

SpecApproval == InitEmpty /\ [][NextApproval]_vars

\* logging in, from an empty store, one request at a time while the clock
\* runs: alice registers and may be suspended, bob never registers
NextLogin ==
  \/ Tick
  \/ \E p \in {1} :
    \/ \E in \in {c \in CreateUserInputs :
                    /\ c.username = "alice" /\ c.email = "a@x.io"
                    /\ c.role \in {"user_mitra", "user_customer"}} :
         Room("users", "createUser", MaxUsers) /\ Call_createUser(p, in)
    \/ createUser_insert(p)
    \/ \E in \in {u \in UpdateUserInputs :
                    /\ u.email = Absent /\ u.approved_by = Absent
                    /\ u.status = Given("suspended")} :
         Call_updateUser(p, in)
    \/ updateUser_update(p)
    \/ \E in \in LoginInputs :
         Room("loginLogs", "authenticateUser", MaxLogs) /\ Call_authenticateUser(p, in)
    \/ authenticateUser_select(p)
    \/ authenticateUser_logFailure(p)
    \/ authenticateUser_updateLastLogin(p)
    \/ authenticateUser_logSuccess(p)

SpecLogin == InitEmpty /\ [][NextLogin]_vars

\* a store with an active and a pending user and an active and a retired
\* template (the is_active column is false only where the database was
\* written directly, as the handler's test does)
InitCreate ==
  /\ users = SeedRoleUsers
  /\ loginLogs = {}
  /\ templates = {[id |-> 1, is_active |-> TRUE], [id |-> 2, is_active |-> FALSE]}
  /\ invitations = {}
  /\ rsvps = {}
  /\ guestbooks = {}
  /\ payments = {}
  /\ visitors = {}
  /\ nextId = [t \in Tables |->
                 CASE t = "users" -> 4
                   [] t = "templates" -> 3
                   [] OTHER -> 1]
  /\ now = 1
  /\ pc = [p \in Procs |-> "idle"]
  /\ loc = [p \in Procs |-> NoCall]
  /\ res = [p \in Procs |-> NoCall]

\* createInvitation requests, one at a time
NextCreate ==
  \E p \in {1} :
    \/ \E in \in CreateInvitationInputs :
         Room("invitations", "createInvitation", MaxInv) /\ Call_createInvitation(p, in)
    \/ createInvitation_selectSlug(p)
    \/ createInvitation_selectUser(p)
    \/ createInvitation_selectTemplate(p)
    \/ createInvitation_insert(p)

SpecCreate == InitCreate /\ [][NextCreate]_vars

\* guests signing the guestbooks of the mitra's and the customer's
\* invitations while users read and moderate them, one request at a time
NextGuestbook ==
  \E p \in {1} :
    \/ \E in \in {c \in CreateGuestbookInputs : c.guest_name = "Gina"} :
         Room("guestbooks", "createGuestbook", MaxEntries) /\ Call_createGuestbook(p, in)
    \/ createGuestbook_select(p)
    \/ createGuestbook_insert(p)
    \/ \E in \in GetGuestbookEntriesInputs : Call_getGuestbookEntries(p, in)
    \/ getGuestbookEntries_select(p)
    \/ \E in \in ModerationInputs : Call_approveGuestbookEntry(p, in)
    \/ approveGuestbookEntry_select(p)
    \/ approveGuestbookEntry_update(p)
    \/ \E in \in ModerationInputs : Call_deleteGuestbookEntry(p, in)
    \/ deleteGuestbookEntry_select(p)
    \/ deleteGuestbookEntry_delete(p)
    \/ deleteGuestbookEntry_check(p)

SpecGuestbook == InitRoles /\ [][NextGuestbook]_vars

\* the store after two createInvitation calls, an updateInvitation that
\* published the first invitation and a createPayment for it: invitation 1
\* is published, its payment still pending
InitStamp ==
  /\ users = SeedUsers
  /\ loginLogs = {}
  /\ templates = {[id |-> 1, is_active |-> TRUE]}
  /\ invitations = SeedInvitations
  /\ rsvps = {}
  /\ guestbooks = {}
  /\ payments = {[id |-> 1, user_id |-> 1, invitation_id |-> 1, status |-> "pending",
                   payment_data |-> Null]}
  /\ visitors = {}
  /\ nextId = [t \in Tables |->
                 CASE t = "users" -> 3
                   [] t = "templates" -> 2
                   [] t = "invitations" -> 3
                   [] t = "payments" -> 2
                   [] OTHER -> 1]
  /\ now = 1
  /\ pc = [p \in Procs |-> "idle"]
  /\ loc = [p \in Procs |-> NoCall]
  /\ res = [p \in Procs |-> NoCall]

\* payments being processed, again and again, and invitations published by
\* their owners while the clock runs, one request at a time
NextStamp ==
  \/ Tick
  \/ \E p \in {1} :
    \/ \E in \in CreatePaymentInputs :
         Room("payments", "createPayment", MaxPay + 1) /\ Call_createPayment(p, in)
    \/ createPayment_selectUser(p)
    \/ createPayment_selectInvitation(p)
    \/ createPayment_selectOwned(p)
    \/ createPayment_insert(p)
    \/ \E in \in ProcessPaymentInputs : Call_processPayment(p, in)
    \/ processPayment_select(p)
    \/ processPayment_updatePayment(p)
    \/ processPayment_updateInvitation(p)
    \/ \E id \in IdsOf("invitations") : Call_publishInvitation(p, id)
    \/ publishInvitation_publish(p)
    \/ \E in \in {u \in UpdateInvitationInputs :
                    /\ u.wedding_data = Absent /\ u.slug = Absent
                    /\ u.status = Given("published")} :
         Call_updateInvitation(p, in)
    \/ updateInvitation_update(p)

SpecStamp == InitStamp /\ [][NextStamp]_vars

\* the store after two createInvitation calls, the publication of the
\* first invitation and two createPayment calls for the second: invitation
\* 2 is a draft with two pending payments
InitConverge ==
  /\ users = SeedUsers
  /\ loginLogs = {}
  /\ templates = {[id |-> 1, is_active |-> TRUE]}
  /\ invitations = SeedInvitations
  /\ rsvps = {}
  /\ guestbooks = {}
  /\ payments = {[id |-> k, user_id |-> 2, invitation_id |-> 2, status |-> "pending",
                   payment_data |-> Null] : k \in {1, 2}}
  /\ visitors = {}
  /\ nextId = [t \in Tables |-> IF t = "templates" THEN 2 ELSE 3]
  /\ now = 1
  /\ pc = [p \in Procs |-> "idle"]
  /\ loc = [p \in Procs |-> NoCall]
  /\ res = [p \in Procs |-> NoCall]

\* the two ways to publication, taken by concurrent requests
NextConverge ==
  \E p \in Procs :
    \/ \E in \in ProcessPaymentInputs : Call_processPayment(p, in)
    \/ processPayment_select(p)
    \/ processPayment_updatePayment(p)
    \/ processPayment_updateInvitation(p)
    \/ \E id \in IdsOf("invitations") : Call_publishInvitation(p, id)
    \/ publishInvitation_publish(p)

SpecConverge == InitConverge /\ [][NextConverge]_vars

\* guests answering, signing the guestbook and being counted, one request
\* at a time while the clock runs past the expiry of invitations 1 and 2
NextOpen ==
  \/ Tick
  \/ \E p \in {1} :
    \/ \E in \in {c \in CreateRsvpInputs :
                    c.guest_email = Null /\ c.guest_phone = Null /\ c.guest_name = "Gina"} :
         Room("rsvps", "createRsvp", MaxRsvp) /\ Call_createRsvp(p, in)
    \/ createRsvp_selectInvitation(p)
    \/ createRsvp_selectExisting(p)
    \/ createRsvp_insert(p)
    \/ createRsvp_increment(p)
    \/ \E in \in {c \in CreateGuestbookInputs : c.guest_name = "Gina"} :
         Room("guestbooks", "createGuestbook", MaxGb) /\ Call_createGuestbook(p, in)
    \/ createGuestbook_select(p)
    \/ createGuestbook_insert(p)
    \/ \E in \in LogVisitorInputs :
         Room("visitors", "logVisitor", MaxVis) /\ Call_logVisitor(p, in)
    \/ logVisitor_select(p)
    \/ logVisitor_commit(p)

SpecOpen == InitGuests /\ [][NextOpen]_vars

\* guests and payers at work on the published invitation 1 while its owner
\* deletes it: concurrent requests
NextOrphan ==
  \E p \in Procs :
    \/ \E in \in {c \in CreateRsvpInputs :
                    /\ c.guest_email = Null /\ c.guest_phone = Null
                    /\ c.guest_name = "Gina" /\ c.invitation_id = 1} :
         Room("rsvps", "createRsvp", MaxGb) /\ Call_createRsvp(p, in)
    \/ createRsvp_selectInvitation(p)
    \/ createRsvp_selectExisting(p)
    \/ createRsvp_insert(p)
    \/ createRsvp_increment(p)
    \/ \E in \in {c \in CreateGuestbookInputs :
                    c.guest_name = "Gina" /\ c.invitation_id = 1} :
         Room("guestbooks", "createGuestbook", MaxGb) /\ Call_createGuestbook(p, in)
    \/ createGuestbook_select(p)
    \/ createGuestbook_insert(p)
    \/ \E in \in {c \in LogVisitorInputs : c.invitationId = 1} :
         Room("visitors", "logVisitor", MaxGb) /\ Call_logVisitor(p, in)
    \/ logVisitor_select(p)
    \/ logVisitor_commit(p)
    \/ \E in \in {c \in CreatePaymentInputs : c.invitation_id = 1} :
         Room("payments", "createPayment", MaxPay + 1) /\ Call_createPayment(p, in)
    \/ createPayment_selectUser(p)
    \/ createPayment_selectInvitation(p)
    \/ createPayment_selectOwned(p)
    \/ createPayment_insert(p)
    \/ \E in \in {d \in DeleteInvitationInputs : d.userId = 1} :
         Call_deleteInvitation(p, in)
    \/ deleteInvitation_delete(p)

SpecOrphan == InitPublished /\ [][NextOrphan]_vars

(* ---------------------------------------------------------------------- *)
(* Properties                                                              *)
(* ---------------------------------------------------------------------- *)
\* request p takes a step
Steps(p) == pc'[p] # pc[p]
\* request p returns by this step
Returns(p) == pc[p] # "idle" /\ pc'[p] = "idle"

(* C1: Paywall invariant.  Every invitation with status 'published' has at
   least one Payment row referencing it with status 'completed'. *)
C1_Paywall ==
  \A i \in invitations :
    i.status = "published" => CompletedPayments(payments, i.id) # {}

(* C2: Duplicate-guest invariant.  No two Rsvp rows of the same invitation
   share the same guest_name, the same non-null guest_email, or the same
   non-null guest_phone. *)
C2_NoDuplicateGuests ==
  \A r1 \in rsvps : \A r2 \in rsvps :
    (r1.id # r2.id /\ r1.invitation_id = r2.invitation_id) =>
      /\ r1.guest_name # r2.guest_name
      /\ r1.guest_email # Null => r1.guest_email # r2.guest_email
      /\ r1.guest_phone # Null => r1.guest_phone # r2.guest_phone

(* C3: view_count and rsvp_count are monotonic.  No step lowers the stored
   view_count or rsvp_count of an invitation. *)
C3_CountersMonotonic ==
  [][\A i \in invitations : \A j \in invitations' :
       j.id = i.id => j.view_count >= i.view_count /\ j.rsvp_count >= i.rsvp_count]_vars

(* C4: Each getInvitationBySlug call on a published invitation raises the
   stored view_count by exactly 1 and returns the stored post-increment
   value; a call that finds no published invitation returns null and leaves
   view_count unchanged. *)
C4_SlugViewExactlyOnce ==
  [][\A p \in Procs :
       /\ (pc[p] = "getInvitationBySlug_update" /\ Returns(p)) =>
            \E i \in invitations : \E j \in invitations' :
              /\ i.id = loc[p].invitation.id /\ j.id = i.id
              /\ j.view_count = i.view_count + 1
              /\ res'[p].val = Some(j)
       /\ (pc[p] = "getInvitationBySlug_select" /\ Returns(p)) =>
            res'[p].val = Null /\ UNCHANGED invitations]_vars

\* view_count of every invitation is the number of its Visitor rows
ViewsAreVisitors ==
  \A i \in invitations :
    i.view_count = Cardinality({v \in visitors : v.invitation_id = i.id})

(* C5: logVisitor is all-or-nothing and race-free.  With only logVisitor
   requests running, each call that succeeds adds exactly one Visitor row of
   its invitation and raises that invitation's view_count by exactly 1, so
   view_count is the number of Visitor rows however the calls interleave; a
   call for an unknown invitation fails, adds no row and changes no
   view_count. *)
C5_LogVisitorAtomic ==
  [][/\ ViewsAreVisitors'
     /\ \A p \in Procs :
          /\ (pc[p] = "logVisitor_commit" /\ Returns(p)) =>
               LET id == loc[p].in.invitationId
               IN /\ res'[p].ok
                  /\ visitors \subseteq visitors'
                  /\ Cardinality(visitors') = Cardinality(visitors) + 1
                  /\ \A v \in visitors' \ visitors : v.invitation_id = id
                  /\ invitations' =
                       {[i EXCEPT !.view_count = IF i.id = id THEN @ + 1 ELSE @] :
                          i \in invitations}
                  /\ ById(invitations, id) # {}
          /\ (pc[p] = "logVisitor_select" /\ Steps(p)) =>
               /\ Returns(p) <=> ById(invitations, loc[p].in.invitationId) = {}
               /\ Returns(p) => ~res'[p].ok
               /\ UNCHANGED <<visitors, invitations>>]_vars

\* a request is about to commit while another one has committed since it
\* selected the invitation
C5_Witness ==
  \E p \in Procs :
    /\ pc[p] = "logVisitor_commit"
    /\ \E i \in invitations : \E s \in loc[p].invitation :
         i.id = s.id /\ i.view_count > s.view_count

(* C6: deleteInvitation(id, userId) called by the owner removes the
   invitation row and every Rsvp, Guestbook, Payment and Visitor row
   referencing id, and returns true; called by anyone else, or with an
   unknown id, it fails and leaves every table unchanged. *)
C6_DeleteCascade ==
  [][\A p \in Procs :
       (pc[p] = "deleteInvitation_delete" /\ Returns(p)) =>
         LET id == loc[p].in.invitationId
             owner == \E i \in invitations : i.id = id /\ i.user_id = loc[p].in.userId
         IN IF owner
            THEN /\ res'[p].ok /\ res'[p].val = TRUE
                 /\ invitations' = {i \in invitations : i.id # id}
                 /\ rsvps' = {r \in rsvps : r.invitation_id # id}
                 /\ guestbooks' = {r \in guestbooks : r.invitation_id # id}
                 /\ payments' = {r \in payments : r.invitation_id # id}
                 /\ visitors' = {r \in visitors : r.invitation_id # id}
                 /\ UNCHANGED <<users, loginLogs, templates>>
            ELSE /\ ~res'[p].ok
                 /\ res'[p].err = "Invitation not found or access denied"
                 /\ UNCHANGED tables]_vars

\* the owner has deleted the published invitation 1 after guests left an
\* rsvp, a guestbook entry and a visit on it; the visit on invitation 2 stays
C6_Witness ==
  /\ res[1].op = "deleteInvitation" /\ res[1].ok /\ res[1].val = TRUE
  /\ ById(invitations, 1) = {}
  /\ nextId.rsvps > 1 /\ rsvps = {}
  /\ nextId.guestbooks > 1 /\ guestbooks = {}
  /\ payments = {}
  /\ nextId.visitors > 2 /\ Cardinality(visitors) = 1
  /\ \A v \in visitors : v.invitation_id = 2

(* C7: processPayment on an existing payment with success=true sets that
   payment to completed and the linked invitation to published with a
   non-null published_at; with success=false it sets the payment to failed
   and leaves the invitations unchanged; with an unknown payment id it fails
   and changes nothing. *)
C7_ProcessPayment ==
  [][\A p \in Procs :
       (loc[p].op = "processPayment" /\ Steps(p)) =>
         LET id == loc[p].in.paymentId
             success == loc[p].in.gatewayResponse.success
         IN /\ pc[p] = "processPayment_select" =>
                 /\ UNCHANGED tables
                 /\ Returns(p) <=> ById(payments, id) = {}
                 /\ Returns(p) => ~res'[p].ok /\ res'[p].err = "Payment not found"
            /\ ~success => UNCHANGED invitations
            /\ (~success /\ pc[p] # "processPayment_select") =>
                 /\ Returns(p) /\ res'[p].ok
                 /\ ById(payments', id) # {}
                 /\ \A r \in ById(payments', id) : r.status = "failed"
            /\ (success /\ pc[p] # "processPayment_select" /\ Returns(p)) =>
                 /\ res'[p].ok
                 /\ ById(payments', id) # {}
                 /\ \A r \in ById(payments', id) : r.status = "completed"
                 /\ \E i \in invitations' :
                      /\ i.id = loc[p].existingPayment.invitation_id
                      /\ i.status = "published" /\ i.published_at # Null]_vars

\* a processPayment reporting success has returned: the payment is completed
\* and its invitation published
C7_Witness ==
  \E p \in Procs :
    /\ res[p].op = "processPayment" /\ res[p].ok
    /\ res[p].val.status = "completed"
    /\ \E i \in invitations :
         i.id = res[p].val.invitation_id /\ i.status = "published" /\ i.published_at # Null

(* C8: publishInvitation(id) succeeds, setting status=published and a
   non-null published_at, if and only if the invitation exists and has at
   least one Payment row with status completed; for an unknown id it fails
   'invitation not found', with no completed payment it fails 'no completed
   payment found', and a failing call leaves every table unchanged. *)
C8_PublishInvitation ==
  [][\A p \in Procs :
       (pc[p] = "publishInvitation_publish" /\ Returns(p)) =>
         LET id == loc[p].in.invitationId
             exists == ById(invitations, id) # {}
             paid == \E r \in payments : r.invitation_id = id /\ r.status = "completed"
         IN /\ res'[p].ok <=> (exists /\ paid)
            /\ res'[p].ok =>
                 /\ \E j \in invitations' :
                      j.id = id /\ j.status = "published" /\ j.published_at # Null
                 /\ {j \in invitations' : j.id # id} = {i \in invitations : i.id # id}
            /\ ~exists => res'[p].err = "Invitation not found"
            /\ (exists /\ ~paid) => res'[p].err = "No completed payment found"
            /\ ~res'[p].ok => UNCHANGED tables]_vars

\* publishInvitation has succeeded on a paid invitation
C8_Witness ==
  \E p \in Procs :
    /\ res[p].op = "publishInvitation" /\ res[p].ok
    /\ res[p].val.status = "published" /\ res[p].val.published_at # Null
    /\ CompletedPayments(payments, res[p].val.id) # {}

\* no two invitations have the same slug
SlugsDistinct ==
  \A i \in invitations : \A j \in invitations : i.id # j.id => i.slug # j.slug

(* C9: Slug uniqueness invariant.  No two invitations ever have the same
   slug (compared case-sensitively), across createInvitation and
   updateInvitation slug changes and concurrent createInvitation calls; a
   createInvitation that reads or inserts while its slug is on any
   invitation fails and inserts nothing, whoever owns that invitation. *)
C9_SlugUnique ==
  [][/\ SlugsDistinct'
     /\ \A p \in Procs :
          (/\ pc[p] \in {"createInvitation_selectSlug", "createInvitation_insert"}
           /\ Steps(p)
           /\ \E i \in invitations : i.slug = loc[p].in.slug) =>
            /\ Returns(p) /\ ~res'[p].ok
            /\ UNCHANGED invitations]_vars

\* two requests passed the slug check together; the second insert was
\* rejected by the unique column while the first one's row stands
C9_Witness ==
  \E p \in Procs :
    /\ res[p].op = "createInvitation" /\ ~res[p].ok
    /\ res[p].err = "duplicate key value violates unique constraint"
    /\ invitations # {}

(* C10: User uniqueness invariant.  In every state reachable through
   createUser and updateUser, no two users have the same username and no
   two users have the same email address as the caller supplied it. *)
C10_UserUniqueness ==
  \A u1 \in users : \A u2 \in users :
    u1.id # u2.id => u1.username # u2.username /\ u1.email.text # u2.email.text

\* a row of the invitation has the guest's name, non-null email or non-null
\* phone
DuplicateGuest(rows, in) ==
  \E r \in rows :
    /\ r.invitation_id = in.invitation_id
    /\ \/ r.guest_name = in.guest_name
       \/ in.guest_email # Null /\ r.guest_email = in.guest_email
       \/ in.guest_phone # Null /\ r.guest_phone = in.guest_phone

\* the rsvp_count columns, by invitation
RsvpCounts == {<<i.id, i.rsvp_count>> : i \in invitations}

(* C11: createRsvp fails with 'not found' for an unknown invitation,
   otherwise 'not published' for a status other than published, otherwise
   'expired' when expires_at is set and in the past, otherwise 'already
   responded' on a duplicate guest, in that order; a failing call leaves
   rsvps and rsvp_count unchanged, a successful call inserts exactly one
   Rsvp and raises the invitation's rsvp_count by exactly 1. *)
C11_CreateRsvpContract ==
  [][\A p \in Procs :
       (loc[p].op = "createRsvp" /\ Steps(p)) =>
         LET in == loc[p].in
             found == ById(invitations, in.invitation_id)
         IN /\ pc[p] = "createRsvp_selectInvitation" =>
                 /\ rsvps' = rsvps /\ RsvpCounts' = RsvpCounts
                 /\ IF found = {}
                    THEN Returns(p) /\ res'[p].err = "Invitation not found"
                    ELSE IF \E i \in found : i.status # "published"
                    THEN Returns(p) /\ res'[p].err = "Invitation is not published"
                    ELSE IF \E i \in found : i.expires_at # Null /\ i.expires_at[1] < now
                    THEN Returns(p) /\ res'[p].err = "Invitation has expired"
                    ELSE ~Returns(p)
            /\ pc[p] = "createRsvp_selectExisting" =>
                 /\ rsvps' = rsvps /\ RsvpCounts' = RsvpCounts
                 /\ IF DuplicateGuest(rsvps, in)
                    THEN /\ Returns(p)
                         /\ res'[p].err = "Guest has already responded to this invitation"
                    ELSE ~Returns(p)
            /\ pc[p] = "createRsvp_insert" =>
                 /\ ~Returns(p)
                 /\ rsvps \subseteq rsvps'
                 /\ Cardinality(rsvps') = Cardinality(rsvps) + 1
                 /\ \A r \in rsvps' \ rsvps :
                      r.invitation_id = in.invitation_id /\ r.guest_name = in.guest_name
                 /\ RsvpCounts' = RsvpCounts
            /\ pc[p] = "createRsvp_increment" =>
                 /\ Returns(p) /\ res'[p].ok
                 /\ rsvps' = rsvps
                 /\ invitations' =
                      {[i EXCEPT !.rsvp_count = IF i.id = in.invitation_id THEN @ + 1 ELSE @] :
                         i \in invitations}]_vars

\* processPayment has reported success for a payment
Paid == \E r \in payments : r.status = "completed"

(* C12: End-to-end publish scenario.  Along createUser(user_customer),
   createTemplate, createInvitation, createPayment, processPayment(success),
   every createRsvp on the invitation before processPayment fails with 'not
   published'; once processPayment has returned the invitation is published,
   the first createRsvp succeeds and leaves the invitation's rsvp_count at
   1. *)
C12_PublishScenario ==
  [][\A p \in Procs :
       /\ (loc[p].op = "createRsvp" /\ Returns(p) /\ ~Paid) =>
            /\ ~res'[p].ok /\ res'[p].err = "Invitation is not published"
            /\ UNCHANGED tables
       /\ (loc[p].op = "processPayment" /\ Returns(p) /\ Paid') =>
            /\ res'[p].ok
            /\ \A i \in invitations' :
                 i.id = res'[p].val.invitation_id => i.status = "published"
            /\ \E i \in invitations' : i.id = res'[p].val.invitation_id
       /\ (loc[p].op = "createRsvp" /\ Returns(p) /\ Paid /\ nextId.rsvps = 2
            /\ pc[p] = "createRsvp_increment" /\ Cardinality(rsvps) = 1) =>
            /\ res'[p].ok
            /\ \A i \in invitations' :
                 i.id = loc[p].in.invitation_id => i.rsvp_count = 1
            /\ \E i \in invitations' : i.id = loc[p].in.invitation_id
       /\ (pc[p] = "createRsvp_selectInvitation" /\ Steps(p) /\ Paid) => ~Returns(p)
       /\ (pc[p] = "createRsvp_selectExisting" /\ Steps(p) /\ rsvps = {}) => ~Returns(p)]_vars

\* the scenario has run to its end: the first guest's answer was accepted on
\* the paid, published invitation, whose rsvp_count is 1
C12_Witness ==
  /\ res[1].op = "createRsvp" /\ res[1].ok
  /\ Paid
  /\ Cardinality(rsvps) = 1
  /\ \E i \in invitations :
       i.id = res[1].val.invitation_id /\ i.status = "published" /\ i.rsvp_count = 1

\* the invitations a returned result holds
Returned(r) ==
  IF r.op = "getInvitations" THEN r.val
  ELSE IF r.val = Null THEN {} ELSE {r.val[1]}

(* C13: Role-based visibility.  getInvitations(userId) and
   getInvitationById(id, userId) called with the id of a user_mitra or
   user_customer succeed and return no invitation of another user; with a
   super_admin id they return any invitation; without userId they return
   only published invitations; with a userId that resolves to no user they
   fail with 'user not found'. *)
C13_RoleVisibility ==
  [][\A p \in Procs :
       (loc[p].op \in {"getInvitations", "getInvitationById"} /\ Returns(p)) =>
         LET userId == loc[p].in.userId
             asked == IF loc[p].op = "getInvitations" THEN invitations
                      ELSE ById(invitations, loc[p].in.id)
         IN IF userId = Absent
            THEN /\ res'[p].ok
                 /\ Returned(res'[p]) = {i \in asked : i.status = "published"}
            ELSE LET user == ById(users, userId[1])
                 IN IF user = {}
                    THEN ~res'[p].ok /\ res'[p].err = "User not found"
                    ELSE /\ res'[p].ok
                         /\ \A u \in user :
                              IF u.role = "super_admin"
                              THEN Returned(res'[p]) = asked
                              ELSE Returned(res'[p]) = {i \in asked : i.user_id = u.id}]_vars

(* C14: Every user a successful createUser returns has status pending when
   the role is user_mitra and active when it is user_customer or
   super_admin, with last_login, approved_by and approved_at null; the
   stored row has the same values. *)
C14_InitialStatus ==
  [][\A p \in Procs :
       (loc[p].op = "createUser" /\ Returns(p) /\ res'[p].ok) =>
         LET user == res'[p].val
         IN /\ user.role = loc[p].in.role
            /\ user.role = "user_mitra" => user.status = "pending"
            /\ user.role \in {"user_customer", "super_admin"} => user.status = "active"
            /\ user.last_login = Null
            /\ user.approved_by = Null
            /\ user.approved_at = Null
            /\ \E u \in users' \ users :
                 /\ u.id = user.id /\ u.role = user.role /\ u.status = user.status
                 /\ u.last_login = Null /\ u.approved_by = Null /\ u.approved_at = Null]_vars

\* a customer and a mitra have registered: one active, one pending
C14_Witness ==
  /\ res[1].op = "createUser" /\ res[1].ok
  /\ \E u \in users : u.role = "user_mitra" /\ u.status = "pending" /\ u.approved_by = Null
  /\ \E u \in users : u.role = "user_customer" /\ u.status = "active"

\* approved_at is set exactly when approved_by is
StampsAgree == \A u \in users : u.approved_at # Null <=> u.approved_by # Null

(* C15: Approval-stamp invariant.  Through createUser, updateUser and
   approveUser a user's approved_at is non-null if and only if approved_by
   is non-null; approveUser on a known id sets status active, approved_by
   and approved_at together; approveUser or updateUser on an unknown id
   fails 'not found' and changes nothing. *)
C15_ApprovalStamp ==
  [][/\ StampsAgree'
     /\ \A p \in Procs :
          /\ (pc[p] = "approveUser_update" /\ Returns(p)) =>
               LET in == loc[p].in
               IN IF ById(users, in.userId) = {}
                  THEN /\ ~res'[p].ok /\ res'[p].err = "User with id not found"
                       /\ UNCHANGED tables
                  ELSE /\ res'[p].ok
                       /\ \A u \in ById(users', in.userId) :
                            /\ u.status = "active"
                            /\ u.approved_by = Some(in.approverId)
                            /\ u.approved_at # Null
                       /\ ById(users', in.userId) # {}
                       /\ {u \in users' : u.id # in.userId} = {u \in users : u.id # in.userId}
          /\ (pc[p] = "updateUser_update" /\ Returns(p)
              /\ ById(users, loc[p].in.id) = {}) =>
               /\ ~res'[p].ok /\ res'[p].err = "User with id not found"
               /\ UNCHANGED tables]_vars

\* a pending mitra was approved, and an approved user had the approval taken
\* back by updateUser: both stamps are null again
C15_Witness ==
  /\ \E u \in users : u.role = "user_mitra" /\ u.status = "active" /\ u.approved_by # Null
  /\ \E u \in users : u.status = "active" /\ u.role = "user_mitra" /\ u.approved_at # Null
  /\ res[1].op = "updateUser" /\ res[1].ok
  /\ res[1].val.approved_by = Null /\ res[1].val.approved_at = Null
  /\ res[1].val.role = "user_mitra" /\ res[1].val.status = "active"

(* C16: Registration/login round trip.  For every user created by
   createUser with username u and password p, authenticateUser with u and p
   returns that user, and authenticateUser with u and any other password
   returns null. *)
C16_LoginRoundTrip ==
  [][\A p \in Procs :
       (loc[p].op = "authenticateUser" /\ Returns(p)) =>
         \A u \in users :
           u.username = loc[p].in.username =>
             IF loc[p].in.password = PlainString(u.password_hash.of)
             THEN /\ res'[p].ok /\ res'[p].val # Null
                  /\ res'[p].val[1].id = u.id
             ELSE res'[p].ok /\ res'[p].val = Null]_vars

(* C17: Every authenticateUser call appends exactly one LoginLog row and
   changes no existing one; the row's success flag is true exactly when the
   call returns a user; a failed call returns null, records user_id 0 for
   an unknown username and the user's id on a password mismatch, and
   leaves the users unchanged; a successful call sets last_login; the
   user's status does not affect the outcome. *)
C17_LoginLog ==
  [][\A p \in Procs :
       (loc[p].op = "authenticateUser" /\ Steps(p)) =>
         LET in == loc[p].in
             named == {u \in users : u.username = in.username}
             matching == {u \in named : u.password_hash = in.password}
         IN /\ ~Returns(p) => UNCHANGED loginLogs
            /\ pc[p] = "authenticateUser_select" =>
                 /\ UNCHANGED tables
                 /\ pc'[p] = "authenticateUser_logFailure" <=> matching = {}
            /\ pc[p] = "authenticateUser_updateLastLogin" =>
                 pc'[p] = "authenticateUser_logSuccess"
            /\ Returns(p) =>
                 /\ res'[p].ok
                 /\ loginLogs \subseteq loginLogs'
                 /\ Cardinality(loginLogs') = Cardinality(loginLogs) + 1
                 /\ \A l \in loginLogs' \ loginLogs :
                      /\ l.success <=> res'[p].val # Null
                      /\ l.success <=> matching # {}
                      /\ ~l.success =>
                           /\ named = {} => l.user_id = 0
                           /\ \A u \in named : l.user_id = u.id
                           /\ UNCHANGED users
                      /\ l.success =>
                           /\ l.user_id = res'[p].val[1].id
                           /\ res'[p].val[1].last_login # Null
                           /\ \A u \in users' :
                                u.id = l.user_id => u.last_login = res'[p].val[1].last_login
                           /\ \E u \in users' : u.id = l.user_id]_vars

\* a suspended account has logged in after a failed attempt: two log rows,
\* one of each kind
C17_Witness ==
  /\ res[1].op = "authenticateUser" /\ res[1].ok /\ res[1].val # Null
  /\ \E u \in users : u.status = "suspended" /\ u.last_login # Null
  /\ \E l \in loginLogs : l.success
  /\ \E l \in loginLogs : ~l.success

\* the message of the first check of createInvitation that the input
\* fails in the present store, "" when it passes them all
FirstFailingCheck(in) ==
  CASE \E i \in invitations : i.slug = in.slug -> "Slug is already taken"
    [] OTHER ->
  CASE \A u \in users : u.id # in.user_id -> "User not found"
    [] OTHER ->
  CASE \E u \in users : u.id = in.user_id /\ u.status # "active" ->
         "User must be active to create invitations"
    [] OTHER ->
  CASE \A t \in templates : t.id # in.template_id -> "Template not found"
    [] OTHER ->
  CASE \E t \in templates : t.id = in.template_id /\ ~t.is_active ->
         "Template is not active"
    [] OTHER ->
  CASE in.wedding_data # "{}" -> "Invalid JSON format in wedding_data"
    [] OTHER -> ""

(* C18: createInvitation checks, in this order, slug uniqueness, user
   existence, user status active, template existence, template is_active
   and wedding_data JSON validity, reports the first failing check and
   inserts nothing on any failure; on success the new invitation has
   status draft, view_count 0, rsvp_count 0 and published_at null. *)
C18_CreateInvitationChecks ==
  [][\A p \in Procs :
       (loc[p].op = "createInvitation" /\ Steps(p)) =>
         /\ ~Returns(p) => UNCHANGED tables
         /\ Returns(p) =>
              IF FirstFailingCheck(loc[p].in) # ""
              THEN /\ ~res'[p].ok
                   /\ res'[p].err = FirstFailingCheck(loc[p].in)
                   /\ UNCHANGED tables
              ELSE /\ res'[p].ok
                   /\ res'[p].val.status = "draft"
                   /\ res'[p].val.view_count = 0
                   /\ res'[p].val.rsvp_count = 0
                   /\ res'[p].val.published_at = Null
                   /\ res'[p].val.slug = loc[p].in.slug
                   /\ res'[p].val.user_id = loc[p].in.user_id
                   /\ invitations' = invitations \cup {res'[p].val}
                   /\ res'[p].val \notin invitations
                   /\ UNCHANGED <<users, loginLogs, templates, rsvps, guestbooks,
                                  payments, visitors>>]_vars

\* with one invitation created, a request that passes every check but the
\* last has been refused for its wedding_data
C18_Witness ==
  /\ Cardinality(invitations) = 1
  /\ \A i \in invitations : i.status = "draft" /\ i.published_at = Null
  /\ res[1].op = "createInvitation" /\ ~res[1].ok
  /\ res[1].err = "Invalid JSON format in wedding_data"

\* the users owning the invitation of the entry, none for an unknown entry
OwnersOfEntry(entryId) ==
  {i.user_id : i \in {j \in invitations :
                        \E g \in guestbooks : g.id = entryId /\ g.invitation_id = j.id}}

(* C19: Guestbook moderation is owner-only.  approveGuestbookEntry and
   deleteGuestbookEntry change a guestbook entry only when userId is the
   user_id of the entry's invitation; for an unknown entry they fail
   'not found', for a non-owner 'does not own this invitation', and then
   no entry changes; the owner's approval succeeds, on an approved entry
   too, and leaves the entry approved and every other entry as it was. *)
C19_OwnerOnlyModeration ==
  [][\A p \in Procs :
       (loc[p].op \in {"approveGuestbookEntry", "deleteGuestbookEntry"} /\ Steps(p)) =>
         LET in == loc[p].in
             known == \E g \in guestbooks : g.id = in.entryId
             owner == in.userId \in OwnersOfEntry(in.entryId)
         IN /\ UNCHANGED <<users, loginLogs, templates, invitations, rsvps, payments, visitors>>
            /\ \A g \in guestbooks : g.id # in.entryId => g \in guestbooks'
            /\ \A g \in guestbooks' : g.id # in.entryId => g \in guestbooks
            /\ guestbooks' # guestbooks => owner
            /\ pc[p] \in {"approveGuestbookEntry_select", "deleteGuestbookEntry_select"} =>
                 /\ UNCHANGED guestbooks
                 /\ ~known => /\ Returns(p) /\ ~res'[p].ok
                               /\ res'[p].err = "Guestbook entry not found"
                 /\ (known /\ ~owner) => /\ Returns(p) /\ ~res'[p].ok
                                          /\ res'[p].err = "User does not own this invitation"
                 /\ (known /\ owner) => ~Returns(p)
            /\ pc[p] = "approveGuestbookEntry_update" =>
                 /\ res'[p].ok
                 /\ res'[p].val.id = in.entryId /\ res'[p].val.is_approved
                 /\ res'[p].val \in guestbooks'
                 /\ \A g \in guestbooks' : g.id = in.entryId => g = res'[p].val
            /\ pc[p] = "deleteGuestbookEntry_check" =>
                 /\ res'[p].ok /\ res'[p].val = TRUE
                 /\ \A g \in guestbooks' : g.id # in.entryId]_vars

\* message contains a denylist term, whatever the case of its letters
Denylisted(message) ==
  \E word \in {<<"s", "p", "a", "m">>, <<"s", "c", "a", "m">>,
                <<"f", "a", "k", "e">>, <<"h", "a", "t", "e">>} :
    Includes(ToLowerCase(message), word)

\* the owner has approved an entry that was approved at its creation, while
\* a held-back entry stays as it was
C19_Witness ==
  /\ res[1].op = "approveGuestbookEntry" /\ res[1].ok
  /\ ~Denylisted(res[1].val.message) /\ res[1].val \in guestbooks
  /\ \E g \in guestbooks : Denylisted(g.message) /\ ~g.is_approved

(* C20: A guestbook entry whose message contains a denylist term (spam,
   scam, fake, hate) in any case is created with is_approved false and is
   never returned by getGuestbookEntries with includeUnapproved false until
   approveGuestbookEntry succeeds on it; an entry with no denylist term is
   created with is_approved true. *)
C20_DenylistHeldBack ==
  [][\A p \in Procs :
       Steps(p) =>
         /\ (loc[p].op = "createGuestbook" /\ Returns(p) /\ res'[p].ok) =>
              /\ res'[p].val.is_approved = ~Denylisted(loc[p].in.message)
              /\ res'[p].val.message = loc[p].in.message
              /\ guestbooks' = guestbooks \cup {res'[p].val}
         /\ (\E g \in guestbooks, h \in guestbooks' :
               g.id = h.id /\ ~g.is_approved /\ h.is_approved) =>
              /\ loc[p].op = "approveGuestbookEntry"
              /\ Returns(p) /\ res'[p].ok
              /\ \A g \in guestbooks, h \in guestbooks' :
                   (g.id = h.id /\ ~g.is_approved /\ h.is_approved) => g.id = loc[p].in.entryId
         /\ (loc[p].op = "getGuestbookEntries" /\ Returns(p)
               /\ loc[p].in.includeUnapproved # Given(TRUE)) =>
              /\ res'[p].ok
              /\ \A k \in DOMAIN res'[p].val :
                   /\ res'[p].val[k] \in guestbooks
                   /\ res'[p].val[k].is_approved
                   /\ res'[p].val[k].invitation_id = loc[p].in.invitationId]_vars

\* a held-back entry and a clean one on the same invitation, and the
\* public listing shows the clean one alone
C20_Witness ==
  /\ res[1].op = "getGuestbookEntries" /\ res[1].ok /\ Len(res[1].val) = 1
  /\ ~Denylisted(res[1].val[1].message)
  /\ \E g \in guestbooks :
       /\ Denylisted(g.message) /\ ~g.is_approved
       /\ g.invitation_id = res[1].val[1].invitation_id

\* payment row pay names a stored user and a stored invitation of that user
PaymentOwned(pay) ==
  /\ \E u \in users : u.id = pay.user_id
  /\ \E i \in invitations : i.id = pay.invitation_id /\ i.user_id = pay.user_id

(* C21: Payment ownership.  Every Payment row created by createPayment
   references an existing user and an existing invitation whose user_id
   is the payment's user_id, and is created with status pending; a
   createPayment that fails one of its three checks (user not found,
   invitation not found, invitation not owned by the user) inserts no
   row. *)
C21_PaymentOwnership ==
  [][\A p \in Procs :
       (loc[p].op = "createPayment" /\ Steps(p)) =>
         LET in == loc[p].in
             failing ==
               CASE \A u \in users : u.id # in.user_id -> "User not found"
                 [] OTHER ->
               CASE \A i \in invitations : i.id # in.invitation_id -> "Invitation not found"
                 [] OTHER ->
               CASE \A i \in invitations : i.id = in.invitation_id => i.user_id # in.user_id ->
                      "Invitation does not belong to the specified user"
                 [] OTHER -> ""
         IN /\ ~Returns(p) => UNCHANGED tables
            /\ Returns(p) =>
                 IF failing # ""
                 THEN /\ ~res'[p].ok /\ res'[p].err = failing
                      /\ UNCHANGED tables
                 ELSE /\ res'[p].ok
                      /\ res'[p].val.status = "pending"
                      /\ res'[p].val.user_id = in.user_id
                      /\ res'[p].val.invitation_id = in.invitation_id
                      /\ PaymentOwned(res'[p].val)
                      /\ res'[p].val \notin payments
                      /\ payments' = payments \cup {res'[p].val}
                      /\ \A pay \in payments' : PaymentOwned(pay)]_vars

\* a payment was created for the customer's invitation after a request
\* naming another user's invitation was refused: one row, pending, owned
C21_Witness ==
  /\ res[1].op = "createPayment" /\ res[1].ok
  /\ res[1].val.status = "pending" /\ res[1].val \in payments
  /\ PaymentOwned(res[1].val)
  /\ \E i \in invitations : i.user_id # res[1].val.user_id

(* C22: published_at is stamped when an invitation first becomes published
   and is not changed by any later operation on an already published
   invitation (a further processPayment with success true, a
   publishInvitation, or an updateInvitation with status published). *)
C22_PublishedAtStampedOnce ==
  [][\A i \in invitations, j \in invitations' :
       i.id = j.id =>
         /\ (i.status # "published" /\ j.status = "published") =>
              j.published_at = Some(now)
         /\ i.status = "published" => j.published_at = i.published_at]_vars

(* C23: Invitation status transitions.  The only status change any handler
   performs is from draft to published: no handler call, updateInvitation
   with a status field included, moves an invitation from published back
   to draft or puts an invitation into status unpublished or archived. *)
C23_StatusTransitions ==
  [][/\ \A i \in invitations, j \in invitations' :
          (i.id = j.id /\ i.status # j.status) =>
            (i.status = "draft" /\ j.status = "published")
     /\ \A j \in invitations' :
          (\A i \in invitations : i.id # j.id) => j.status = "draft"]_vars

(* C24: Both publish paths converge on the same invariants.  Immediately
   after an invitation becomes published through publishInvitation or
   through processPayment with success true, it has status published, a
   non-null published_at, and exactly one Payment row with status
   completed. *)
C24_PublishPathsConverge ==
  [][\A p \in Procs :
       (loc[p].op \in {"publishInvitation", "processPayment"} /\ Steps(p)) =>
         \A i \in invitations, j \in invitations' :
           (i.id = j.id /\ i.status # "published" /\ j.status = "published") =>
             /\ j.published_at # Null
             /\ Cardinality(CompletedPayments(payments', j.id)) = 1]_vars

\* the invitation a guest request names, as the request's first statement
\* reads it
NamedInvitation(p) ==
  {i \in invitations :
     i.id = IF loc[p].op = "logVisitor" THEN loc[p].in.invitationId
            ELSE loc[p].in.invitation_id}

(* C25: Rsvp, Guestbook and Visitor rows are created only against an
   invitation that is published and not past its expires_at at the time
   of the call: createGuestbook and logVisitor, like createRsvp, create no
   row for a draft invitation or for a published invitation whose
   expires_at is in the past. *)
C25_GuestRowsNeedOpenInvitation ==
  [][\A p \in Procs :
       (/\ pc[p] \in {"createRsvp_selectInvitation", "createGuestbook_select",
                      "logVisitor_select"}
        /\ Steps(p)
        /\ \A i \in NamedInvitation(p) :
             i.status # "published" \/ (i.expires_at # Null /\ i.expires_at[1] < now)) =>
         /\ Returns(p) /\ ~res'[p].ok
         /\ UNCHANGED tables]_vars

(* C26: deleteInvitation does not leak existence.  For a caller who is not
   the owner, deleteInvitation(id, userId) yields the same error ('not
   found or access denied') and the same, empty, state change whether or
   not an invitation with that id exists: what the caller gets back and
   what the store becomes do not depend on other users' invitations. *)
C26_DeleteDoesNotLeak ==
  [][\A p \in Procs :
       (/\ loc[p].op = "deleteInvitation" /\ Steps(p)
        /\ \A i \in invitations :
             i.id = loc[p].in.invitationId => i.user_id # loc[p].in.userId) =>
         /\ Returns(p)
         /\ res'[p] = Err("deleteInvitation", "Invitation not found or access denied")
         /\ UNCHANGED <<tables, nextId, now>>]_vars

\* a deleteInvitation has been refused in a store where id 1 names no
\* invitation any more, id 2 names the invitation of user 2, and user 1 is
\* the owner of neither
C26_Witness ==
  /\ res[1].op = "deleteInvitation" /\ ~res[1].ok
  /\ res[1].err = "Invitation not found or access denied"
  /\ \A i \in invitations : i.id # 1
  /\ \E i \in invitations : i.id = 2 /\ i.user_id = 2

(* C27: A user_mitra account becomes active only through an approval.  In
   every state reachable through createUser, updateUser and approveUser, a
   user with role user_mitra and status active has non-null approved_by
   and approved_at. *)
C27_MitraActiveOnlyApproved ==
  \A u \in users :
    (u.role = "user_mitra" /\ u.status = "active") =>
      (u.approved_by # Null /\ u.approved_at # Null)

(* C28: Referential integrity under interleaving.  In every reachable
   state, including when createRsvp, createGuestbook, createPayment or
   logVisitor runs concurrently with deleteInvitation of the same
   invitation, every Rsvp, Guestbook, Payment and Visitor row references an
   invitation row that exists. *)
C28_ReferentialIntegrity ==
  \A r \in rsvps \cup guestbooks \cup payments \cup visitors :
    \E i \in invitations : i.id = r.invitation_id

(* C29: Counter consistency.  For every invitation, in every state where
   no createRsvp call is in progress, rsvp_count equals the number of Rsvp
   rows referencing that invitation, also after concurrent createRsvp
   calls by distinct guests. *)
C29_RsvpCountConsistent ==
  (\A p \in Procs : loc[p].op # "createRsvp") =>
    \A i \in invitations :
      i.rsvp_count = Cardinality({r \in rsvps : r.invitation_id = i.id})

\* two requests for distinct guests of invitation 1 have both returned
\* their rows, and the invitation counts two
C29_Witness ==
  /\ \A p \in Procs : pc[p] = "idle"
  /\ res[1].op = "createRsvp" /\ res[1].ok
  /\ res[2].op = "createRsvp" /\ res[2].ok
  /\ res[1].val.guest_name # res[2].val.guest_name
  /\ res[1].val.invitation_id = 1 /\ res[2].val.invitation_id = 1
  /\ \E i \in invitations : i.id = 1 /\ i.rsvp_count = 2

\* request p applies processPayment a further time: the payment it read
\* holds the gateway response of this call, stored by an earlier application
Repeats(p) ==
  /\ pc[p] \in {"processPayment_updatePayment", "processPayment_updateInvitation"}
  /\ loc[p].existingPayment.payment_data = Some(loc[p].in.gatewayResponse)

(* C30: processPayment is accepted for a payment in any status and is
   idempotent: applying it twice to the same payment with the same
   gatewayResponse leaves the payment's status, its payment_data and the
   linked invitation's status the same as applying it once. *)
C30_ProcessPaymentIdempotent ==
  [][\A p \in Procs :
       (loc[p].op = "processPayment" /\ Steps(p)) =>
         LET id == loc[p].in.paymentId
             known == \E r \in payments : r.id = id
         IN /\ (known /\ pc[p] = "processPayment_select") => ~Returns(p)
            /\ (known /\ Returns(p)) => res'[p].ok
            /\ Repeats(p) =>
                 /\ \A r \in payments, t \in payments' :
                      r.id = t.id =>
                        /\ t.status = r.status
                        /\ t.payment_data = r.payment_data
                 /\ \A i \in invitations, j \in invitations' :
                      i.id = j.id => j.status = i.status
                 /\ Returns(p) =>
                      /\ res'[p].val.status = loc[p].existingPayment.status
                      /\ res'[p].val.payment_data = loc[p].existingPayment.payment_data]_vars

\* the second application of a successful processPayment has written the
\* payment again and is about to write the invitation again
C30_Witness ==
  /\ pc[1] = "processPayment_updateInvitation" /\ Repeats(1)
  /\ \E r \in payments :
       /\ r.id = loc[1].in.paymentId /\ r.status = "completed"
       /\ \E i \in invitations : i.id = r.invitation_id /\ i.status = "published"

====
